---- MODULE Spec2Model ----
(***************************************************************************)
(* A model of the `arcane` crate of jix/yig: the reference counted cell    *)
(* (untyped.rs, ptr.rs), its owning handles Arc and UniqueArc (arc.rs) and *)
(* the hash-consing table behind DedupArc (dedup.rs), with ArcOnce         *)
(* (once.rs) and ArcBorrow (borrow.rs); of the `generic_singleton` crate:  *)
(* singleton_with and its caches; of the `inline_cache` crate: type_cache  *)
(* with the RwLock fallback and with the flat buffer of the WASM build.     *)
(*                                                                         *)
(* Threads run the operations of the crate; every atomic access to a count *)
(* word and every acquisition of the table's RwLock is one step, so the    *)
(* interleavings of the model are those of the code under sequential       *)
(* consistency.  A cell is an address; addresses are handed out fresh and  *)
(* are not reused.  An access to the count word of a freed cell observes   *)
(* any of the values GarbageCounts.                                        *)
(***************************************************************************)
EXTENDS Naturals, FiniteSets, Sequences

\* ---------------------------------------------------------------- bounds
MaxCells == 2
MaxHeld == 2
NumValues == 2
NumTypes == 2
MaxRuns == 2
MaxUses == 2

\* the width in bits of usize as far as the indices of flat_wasm.rs go
IndexBits == 4

\* the width of usize in bits; counts and addresses are words of this width
WordBits == 3
USIZE_MAX == 2^WordBits - 1

\* untyped.rs: const MAX_COUNT: usize = isize::MAX as usize
MAX_COUNT == 2^(WordBits - 1) - 1

\* two threads run the operations concurrently
Threads == {1, 2}
Cells == 1..MaxCells
Values == 1..NumValues
Types == 1..NumTypes

\* inline_cache: the types T and tags K of the slots requested, the size of T
\* in words (a zero-sized type and a two-word type), the words of the heap
SlotTypes == {1, 2}
SlotTags == {1, 2}
SlotIds == SlotTypes \X SlotTags
SizeOf(T) == 2 * (T - 1)
Addrs == 1..(3 * Cardinality(SlotIds))

VARIABLES
    mem,        \* [Cells -> {"unalloc", "alloc", "freed"}]: the allocator's view
    count,      \* [Cells -> Nat]: the AtomicUsize in front of the payload
    value,      \* [Cells -> Values \cup {0}]: the payload T written at new()
    kind,       \* [Cells -> {"plain", "entry"}]: payload typed T or DedupEntry<T, D>
    dtorRuns,   \* [Cells -> Nat]: how often T's destructor ran on the payload
    deallocs,   \* [Cells -> Nat]: how often the cell was handed to dealloc
    table,      \* DedupTable.table: set of [hash, ptr] buckets
    readers,    \* threads holding the RwLock for reading
    writer,     \* thread holding the RwLock for writing, 0 if none
    pc,         \* [Threads -> position inside the running operation]
    cur,        \* [Threads -> cell whose zero-count tail the thread runs, or 0]
    found,      \* [Threads -> result of the probe made under the lock, or 0]
    shared,     \* [Threads -> [Cells -> Nat]]: Arc / DedupArc handles owned
    unique,     \* [Threads -> Cells \cup {0}]: the UniqueArc owned, 0 if none
    aborted,    \* process::abort() was called
    ev,         \* the outcome of the step just taken, NoEvent if it has none
    slotAlive,  \* an ArcOnce<Arc<T>> exists (made by default(), not yet dropped)
    fat,        \* ArcOnce::has_metadata(): the handle is two words wide
    niche,      \* the word of the ArcOnce read through atomic(): 0, SENTINEL or a cell
    meta,       \* the word of the ArcOnce written through nonatomic(), 0 if zeroed
    arg,        \* [Threads -> the cell of the handle passed to the running set, or 0]
    setWins,    \* set calls that returned None since the ArcOnce was last zeroed
    borrow,     \* [Threads -> the cell of the ArcBorrow the thread holds, or 0]
    sgStatic,   \* the build uses static_cache (TRUE) or thread_local (FALSE)
    sgTable,    \* GLOBAL_SINGLETON_TABLE: the types that have a OnceLock in it
    sgReaders,  \* threads holding GLOBAL_SINGLETON_TABLE for reading
    sgWriter,   \* thread holding GLOBAL_SINGLETON_TABLE for writing, 0 if none
    sgOnce,     \* [Types -> the reference in the type's OnceLock, NoRef if unset]
    sgInit,     \* [Types -> the thread running the OnceLock's initializer, or 0]
    sgCache,    \* [CacheKeys -> [Slots -> the reference cached, NoRef if none]]
    sgMade,     \* [Types -> the references leaked by constructors that ran]
    sgReturned, \* [Types -> the references singleton_with::<T> has returned]
    sgT,        \* [Threads -> the T of the running singleton_with call, or 0]
    sgCtor,     \* [Threads -> the value the call's constructor would produce, or 0]
    sgFound,    \* [Threads -> read.get() found the type's OnceLock]
    sgGot,      \* [Threads -> the reference the running call obtained, or NoRef]
    sgInserts,  \* [Threads -> write-locked get_or_insert_with calls of the thread's
                \*  running or last singleton_with, counted up to MaxRuns] (history)
    tcMap,      \* CACHE: [TypeIds -> the address stored for the key, 0 if none]
    tcReaders,  \* threads holding CACHE for reading
    tcWriter,   \* thread holding CACHE for writing, 0 if none
    heap,       \* [Addrs -> the word at the address]
    heapTop,    \* the lowest address the allocator has not handed out
    tcId,       \* [Threads -> the <<T, K>> of the running type_cache call]
    tcFound,    \* [Threads -> the address cache.get() found, 0 for None]
    tcReturned, \* [SlotIds -> the addresses type_cache::<T, K>() has returned]
    wbBufs,     \* the buffers of CACHE_BUF ever allocated, none is freed: each
                \*  [last, data: [0..last -> the pointer in the slot]]
    wbPtr,      \* CACHE_BUF.ptr: the buffer in use, an index of wbBufs
    wbGrow,     \* thread holding CACHE_BUF.grow_lock, 0 if none
    wbSeen,     \* [Threads -> the buffer the thread loaded from CACHE_BUF.ptr]
    wbNew,      \* [Threads -> the buffer the thread's grow is filling, or 0]
    wbI,        \* [Threads -> the index i of the loop in the thread's grow]
    raced,      \* [Threads -> the cell another thread inserted, with a payload
                \*  dedup_eq to this thread's unique, since this thread's
                \*  read-locked probe missed; 0 if none] (history)
    stack,      \* [Threads -> the cells whose payload destructor is waiting for
                \*  the drop of a handle inside the payload, innermost first]
    lyData,     \* the payload's Layout [size, align] given to ArcLayout
    lyArc,      \* what ArcLayout::from_data_layout returned:
                \*  [ok, size, align, header_size]
    lyPc,       \* "data", "layout", "err", "alloc" or "freed"
    lyBase,     \* the address std::alloc::alloc returned, 0 before
    lyPtr,      \* UntypedArcPtr.ptr of the cell, 0 before
    lyCount,    \* the address UntypedArcPtr::alloc wrote the count to, 0 before
    lyFreed     \* the address handed to std::alloc::dealloc, 0 before

onceVars == <<slotAlive, fat, niche, meta, arg, setWins>>
borrowVars == <<borrow>>
sgLockVars == <<sgReaders, sgWriter>>
singletonVars == <<sgStatic, sgTable, sgLockVars, sgOnce, sgInit, sgCache, sgMade,
                   sgReturned, sgT, sgCtor, sgFound, sgGot, sgInserts>>

tcLockVars == <<tcReaders, tcWriter>>
wasmVars == <<wbBufs, wbPtr, wbGrow, wbSeen, wbNew, wbI>>
slotVars == <<tcMap, tcLockVars, heap, heapTop, tcId, tcFound, tcReturned, wasmVars>>

\* the variables of the crates generic_singleton and inline_cache
libVars == <<singletonVars, slotVars>>

\* what the model records of the past of a find_or_remember call
histVars == <<raced>>

\* the destructors a thread is inside of
nestVars == <<stack>>

\* the layout of one cell and the addresses computed from it
layoutVars == <<lyData, lyArc, lyPc, lyBase, lyPtr, lyCount, lyFreed>>

\* the variables outside arc.rs, ptr.rs, untyped.rs and dedup.rs
restVars == <<onceVars, borrowVars, libVars, histVars, nestVars, layoutVars>>

vars == <<mem, count, value, kind, dtorRuns, deallocs, table, readers, writer,
          pc, cur, found, shared, unique, aborted, ev, restVars>>

cellVars == <<mem, value, kind>>
lockVars == <<readers, writer>>

\* the variables of the arcane crate but for pc, aborted and ev
arcaneVars == <<cellVars, count, dtorRuns, deallocs, table, lockVars, cur, found,
                shared, unique, onceVars, borrowVars, histVars, nestVars, layoutVars>>

\* an operation's outcome: which branch returned, on which thread, for which cell
Event(op, t, c) == [op |-> op, t |-> t, c |-> c]
NoEvent == Event("none", 0, 0)

\* ------------------------------------------------------------- untyped.rs

\* reads of a count word: the stored value while the cell is allocated,
\* anything once it was freed
GarbageCounts == {1, 2, MAX_COUNT}
CountRead(c) == IF mem[c] = "alloc" THEN {count[c]} ELSE GarbageCounts

\* an inc_count that lets the count reach MAX_COUNT + 1 before it aborts
IncAbortsOffByOne(prev) == prev > MAX_COUNT

\* inc_count: if prev >= MAX_COUNT { abort() }
IncAborts(prev) == prev >= MAX_COUNT

\* UntypedArcPtr::inc_count: fetch_add(1, Relaxed), which wraps at the width of
\* usize, then the abort test on the value the fetch_add returned
inc_count(c, prev) ==
    /\ count' = [count EXCEPT ![c] = IF mem[c] = "alloc"
                                     THEN (prev + 1) % (USIZE_MAX + 1) ELSE @]
    /\ aborted' = IncAborts(prev)

\* UntypedArcPtr::dec_count: fetch_sub(1, Release) - 1
dec_count(prev) == prev - 1

\* UntypedArcPtr::alloc: the first unused address, count word written to 1
FreshCells == {c \in Cells : mem[c] = "unalloc"}
FreshCell == CHOOSE c \in FreshCells : \A d \in FreshCells : c <= d
InitialCount == 1

\* ---------------------------------------------------------------- helpers
\* the number of Arc / DedupArc handles a thread owns
RECURSIVE SumShared(_, _)
SumShared(t, S) == IF S = {} THEN 0
                   ELSE LET c == CHOOSE x \in S : TRUE
                        IN shared[t][c] + SumShared(t, S \ {c})
Held(t) == SumShared(t, Cells)

Owners(c) == {t \in Threads : shared[t][c] > 0}
UniqueOwners(c) == {t \in Threads : unique[t] = c}

Idle(t) == ~aborted /\ pc[t] = "idle"

\* ------------------------------------------------------------------ arc.rs

\* a payload is a T of Values or, above them, a node that holds one DedupArc:
\* Inner(c) holds a handle to the cell c and is equal to Inner(c) only
\* (DedupArc's PartialEq and Hash are by address)
Inner(c) == NumValues + c
ChildOf(c) == IF value[c] > NumValues THEN value[c] - NumValues ELSE 0

\* Arc::new / UniqueArc::new: alloc() then data_ptr().write(value)
AllocCell(c, v) ==
    /\ mem' = [mem EXCEPT ![c] = "alloc"]
    /\ count' = [count EXCEPT ![c] = InitialCount]
    /\ value' = [value EXCEPT ![c] = v]
    /\ kind' = [kind EXCEPT ![c] = "plain"]

ArcNew(t, v) ==
    /\ Idle(t) /\ FreshCells # {} /\ Held(t) < MaxHeld
    /\ LET c == FreshCell IN
        /\ AllocCell(c, v)
        /\ shared' = [shared EXCEPT ![t][c] = @ + 1]
        /\ ev' = NoEvent
    /\ UNCHANGED <<restVars, dtorRuns, deallocs, table, lockVars, pc, cur, found, unique, aborted>>

UniqueNew(t, v) ==
    /\ Idle(t) /\ FreshCells # {} /\ unique[t] = 0
    /\ LET c == FreshCell IN
        /\ AllocCell(c, v)
        /\ unique' = [unique EXCEPT ![t] = c]
        /\ ev' = NoEvent
    /\ UNCHANGED <<restVars, dtorRuns, deallocs, table, lockVars, pc, cur, found, shared, aborted>>

\* UniqueArc::new(Inner(handle)): the payload takes the DedupArc the thread
\* moves into it
UniqueNewInner(t, d) ==
    /\ Idle(t) /\ FreshCells # {} /\ unique[t] = 0
    /\ shared[t][d] > 0 /\ kind[d] = "entry"
    /\ LET c == FreshCell IN
        /\ AllocCell(c, Inner(d))
        /\ unique' = [unique EXCEPT ![t] = c]
        /\ ev' = NoEvent
    /\ shared' = [shared EXCEPT ![t][d] = @ - 1]
    /\ UNCHANGED <<restVars, dtorRuns, deallocs, table, lockVars, pc, cur, found, aborted>>

\* Arc::clone through a reference to a handle some thread owns (Arc is Sync)
ArcClone(t, c) ==
    /\ Idle(t) /\ Owners(c) # {} /\ Held(t) < MaxHeld
    /\ \E prev \in CountRead(c) :
        /\ inc_count(c, prev)
        /\ shared' = [shared EXCEPT ![t][c] = IF IncAborts(prev) THEN @ ELSE @ + 1]
        /\ ev' = NoEvent
    /\ UNCHANGED <<restVars, cellVars, dtorRuns, deallocs, table, lockVars, pc, cur, found, unique>>

\* a dec_count_drop_on_zero that tests the count left against 1
EntersDropTailOffByOne(prev) == prev - 1 = 1

\* ArcPtr::dec_count_drop_on_zero: the zero-count tail starts iff dec_count() == 0
EntersDropTail(prev) == dec_count(prev) = 0

\* Arc::drop, first step: dec_count_drop_on_zero up to the test of the result
ArcDrop(t, c) ==
    /\ Idle(t) /\ shared[t][c] > 0
    /\ \E prev \in CountRead(c) :
        /\ count' = [count EXCEPT ![c] = IF mem[c] = "alloc" THEN dec_count(prev) ELSE @]
        /\ shared' = [shared EXCEPT ![t][c] = @ - 1]
        /\ pc' = [pc EXCEPT ![t] = IF EntersDropTail(prev) THEN "acquire" ELSE "idle"]
        /\ cur' = [cur EXCEPT ![t] = IF EntersDropTail(prev) THEN c ELSE 0]
        /\ ev' = NoEvent
    /\ UNCHANGED <<restVars, cellVars, dtorRuns, deallocs, table, lockVars, found, unique, aborted>>

\* acquire_unique_drop_and_dealloc: as_untyped_ptr().acquire()
Acquire(t) ==
    /\ ~aborted /\ pc[t] = "acquire"
    /\ pc' = [pc EXCEPT ![t] = "drop_in_place"]
    /\ ev' = NoEvent
    /\ UNCHANGED <<restVars, cellVars, count, dtorRuns, deallocs, table, lockVars, cur, found,
                   shared, unique, aborted>>

\* drop_in_place of the payload's T: directly for a plain payload, after
\* DedupEntry::drop returned for an interned one
\* a drop_in_place that destroys the inner T without DedupEntry::drop first
DropPayloadAtOnce(c) == "drop_in_place"

DropPayloadAt(c) == IF kind[c] = "entry" THEN "drop_inner" ELSE "drop_in_place"

\* the destructor of a payload that holds a DedupArc drops it, which is
\* Arc::drop on the cell d: fetch_sub, and at 1 the zero-count tail of d runs
\* inside this destructor
DropChild(t, d) ==
    \E prev \in CountRead(d) :
        /\ count' = [count EXCEPT ![d] = IF mem[d] = "alloc" THEN dec_count(prev) ELSE @]
        /\ pc' = [pc EXCEPT ![t] = IF EntersDropTail(prev) THEN "acquire" ELSE "dealloc"]
        /\ cur' = [cur EXCEPT ![t] = IF EntersDropTail(prev) THEN d ELSE @]
        /\ stack' = [stack EXCEPT ![t] = IF EntersDropTail(prev) THEN <<cur[t]>> \o @ ELSE @]

DropPayload(t) ==
    /\ ~aborted /\ cur[t] # 0 /\ pc[t] = DropPayloadAt(cur[t])
    /\ dtorRuns' = [dtorRuns EXCEPT ![cur[t]] = @ + 1]
    /\ IF ChildOf(cur[t]) = 0
       THEN /\ pc' = [pc EXCEPT ![t] = "dealloc"]
            /\ UNCHANGED <<count, cur, stack>>
       ELSE DropChild(t, ChildOf(cur[t]))
    /\ ev' = NoEvent
    /\ UNCHANGED <<layoutVars, onceVars, borrowVars, libVars, histVars, cellVars, deallocs, table, lockVars,
                   found, shared, unique, aborted>>

\* ArcPtr::dealloc: the memory goes back to the allocator, what it held is lost
Dealloc(t) ==
    /\ ~aborted /\ pc[t] = "dealloc"
    /\ mem' = [mem EXCEPT ![cur[t]] = "freed"]
    /\ count' = [count EXCEPT ![cur[t]] = 0]
    /\ value' = [value EXCEPT ![cur[t]] = 0]
    /\ deallocs' = [deallocs EXCEPT ![cur[t]] = @ + 1]
    /\ pc' = [pc EXCEPT ![t] = IF stack[t] = <<>> THEN "idle" ELSE "dealloc"]
    /\ cur' = [cur EXCEPT ![t] = IF stack[t] = <<>> THEN 0 ELSE Head(stack[t])]
    /\ stack' = [stack EXCEPT ![t] = IF @ = <<>> THEN @ ELSE Tail(@)]
    /\ ev' = NoEvent
    /\ UNCHANGED <<layoutVars, onceVars, borrowVars, libVars, histVars, kind, dtorRuns, table, lockVars,
                   found, shared, unique, aborted>>

\* a UniqueArc::drop that releases its unit of the count as Arc::drop does
UniqueDropDecrements(t) ==
    /\ Idle(t) /\ unique[t] # 0
    /\ unique' = [unique EXCEPT ![t] = 0]
    /\ count' = [count EXCEPT ![unique[t]] = dec_count(@)]
    /\ cur' = [cur EXCEPT ![t] = unique[t]]
    /\ pc' = [pc EXCEPT ![t] = "drop_in_place"]
    /\ ev' = NoEvent
    /\ UNCHANGED <<restVars, cellVars, dtorRuns, deallocs, table, lockVars, found, shared, aborted>>

\* UniqueArc::drop: drop_in_place, then dealloc; the count word is not touched
UniqueDrop(t) ==
    /\ Idle(t) /\ unique[t] # 0
    /\ unique' = [unique EXCEPT ![t] = 0]
    /\ cur' = [cur EXCEPT ![t] = unique[t]]
    /\ pc' = [pc EXCEPT ![t] = "drop_in_place"]
    /\ ev' = NoEvent
    /\ UNCHANGED <<restVars, cellVars, count, dtorRuns, deallocs, table, lockVars, found,
                   shared, aborted>>

\* a conversion that takes a unit of the count for the Arc as a clone does
FromUniqueIncrements(t) ==
    /\ Idle(t) /\ unique[t] # 0 /\ Held(t) < MaxHeld
    /\ unique' = [unique EXCEPT ![t] = 0]
    /\ shared' = [shared EXCEPT ![t][unique[t]] = @ + 1]
    /\ count' = [count EXCEPT ![unique[t]] = @ + 1]
    /\ ev' = Event("from_unique", t, unique[t])
    /\ UNCHANGED <<restVars, cellVars, dtorRuns, deallocs, table, lockVars, pc, cur,
                   found, aborted>>

\* From<UniqueArc<T>> for Arc<T>: the pointer changes its type, nothing else
FromUnique(t) ==
    /\ Idle(t) /\ unique[t] # 0 /\ Held(t) < MaxHeld
    /\ unique' = [unique EXCEPT ![t] = 0]
    /\ shared' = [shared EXCEPT ![t][unique[t]] = @ + 1]
    /\ ev' = Event("from_unique", t, unique[t])
    /\ UNCHANGED <<restVars, cellVars, count, dtorRuns, deallocs, table, lockVars, pc, cur,
                   found, aborted>>

\* a try_from that also promotes a handle that shares its cell with another
TryFromOkAtMostTwo(loaded) == loaded <= 2

\* TryFrom<Arc<T>> for UniqueArc<T>: Ok iff load_count() == 1
TryFromOk(loaded) == loaded = 1

\* a try_from whose Err branch does not hand the Arc back
TryFromSharedLosesHandle(t, c, loaded) == [shared EXCEPT ![t][c] = @ - 1]

\* Ok(UniqueArc { ptr: Arc::into_arc_ptr(value) }) consumes the handle,
\* Err(value) hands it back
TryFromShared(t, c, loaded) ==
    IF TryFromOk(loaded) THEN [shared EXCEPT ![t][c] = @ - 1] ELSE shared

TryFrom(t, c) ==
    /\ Idle(t) /\ shared[t][c] > 0 /\ unique[t] = 0
    /\ \E loaded \in CountRead(c) :
        /\ unique' = [unique EXCEPT ![t] = IF TryFromOk(loaded) THEN c ELSE @]
        /\ shared' = TryFromShared(t, c, loaded)
        /\ ev' = Event(IF TryFromOk(loaded) THEN "try_from_ok" ELSE "try_from_err", t, c)
    /\ UNCHANGED <<restVars, cellVars, count, dtorRuns, deallocs, table, lockVars, pc, cur,
                   found, aborted>>

\* Deref for Arc / UniqueArc / DedupArc: a read of the payload
Deref(t, c) ==
    /\ Idle(t) /\ (shared[t][c] > 0 \/ unique[t] = c)
    /\ ev' = NoEvent
    /\ UNCHANGED <<restVars, cellVars, count, dtorRuns, deallocs, table, lockVars, pc, cur,
                   found, shared, unique, aborted>>

\* --------------------------------------------------------------- borrow.rs
\* ArcBorrow<'a, T>: the ArcPtr of an Arc, Copy, without a Drop; the lifetime
\* 'a is that of the &'a Arc<T> it was made from.

\* the threads that hold an ArcBorrow of the cell c
Borrowers(c) == {t \in Threads : borrow[t] = c}

\* the Arc handles of all threads on the cell c
Handles(c) == SumShared(1, {c}) + SumShared(2, {c})

\* From<&'a Arc<T>>: Arc::as_arc_ptr(value) of a handle of the thread u
BorrowFrom(t, u, c) ==
    /\ Idle(t) /\ shared[u][c] > 0 /\ borrow[t] = 0
    /\ borrow' = [borrow EXCEPT ![t] = c]
    /\ ev' = Event("borrow_from", t, c)
    /\ UNCHANGED <<histVars, nestVars, layoutVars, onceVars, libVars, cellVars, count, dtorRuns, deallocs, table, lockVars,
                   pc, cur, found, shared, unique, aborted>>

\* Copy / Clone: *self, here handed to the thread u (ArcBorrow is Send)
BorrowCopy(t, u) ==
    /\ Idle(t) /\ borrow[t] # 0 /\ borrow[u] = 0
    /\ borrow' = [borrow EXCEPT ![u] = borrow[t]]
    /\ ev' = Event("borrow_copy", t, borrow[t])
    /\ UNCHANGED <<histVars, nestVars, layoutVars, onceVars, libVars, cellVars, count, dtorRuns, deallocs, table, lockVars,
                   pc, cur, found, shared, unique, aborted>>

\* an ArcBorrow goes out of scope: there is no Drop for it
BorrowDiscard(t) ==
    /\ Idle(t) /\ borrow[t] # 0
    /\ borrow' = [borrow EXCEPT ![t] = 0]
    /\ ev' = Event("borrow_discard", t, borrow[t])
    /\ UNCHANGED <<histVars, nestVars, layoutVars, onceVars, libVars, cellVars, count, dtorRuns, deallocs, table, lockVars,
                   pc, cur, found, shared, unique, aborted>>

\* a clone_arc that hands out the borrowed pointer as an Arc as it is
CloneArcNoInc(t) ==
    /\ Idle(t) /\ borrow[t] # 0 /\ Held(t) < MaxHeld
    /\ shared' = [shared EXCEPT ![t][borrow[t]] = @ + 1]
    /\ ev' = Event("clone_arc", t, borrow[t])
    /\ UNCHANGED <<histVars, nestVars, layoutVars, onceVars, libVars, borrowVars, cellVars, count, dtorRuns, deallocs, table,
                   lockVars, pc, cur, found, unique, aborted>>

\* ArcBorrow::clone_arc(this): arc.clone() through the Deref to Arc<T>
CloneArc(t) ==
    /\ Idle(t) /\ borrow[t] # 0 /\ Held(t) < MaxHeld
    /\ \E prev \in CountRead(borrow[t]) :
        /\ inc_count(borrow[t], prev)
        /\ shared' = [shared EXCEPT ![t][borrow[t]] = IF IncAborts(prev) THEN @ ELSE @ + 1]
        /\ ev' = Event(IF IncAborts(prev) THEN "abort" ELSE "clone_arc", t, borrow[t])
    /\ UNCHANGED <<histVars, nestVars, layoutVars, onceVars, libVars, borrowVars, cellVars, dtorRuns, deallocs, table,
                   lockVars, pc, cur, found, unique>>

\* Arc::drop of a handle no ArcBorrow was made from: the &'a Arc<T> of a
\* borrow outlives the borrow, so a cell with borrowers keeps a handle
DropUnborrowed(t, c) ==
    /\ Borrowers(c) # {} => Handles(c) > 1
    /\ ArcDrop(t, c)

\* ---------------------------------------------------------------- dedup.rs

\* BuildHasherDedup: dedup_hash is hash_one(value), dedup_eq is lhs == rhs;
\* distinct values may share a hash
dedup_hash(v) == (v + 1) \div 2
dedup_eq(lhs, rhs) == lhs = rhs

Bucket(h, p) == [hash |-> h, ptr |-> p]
TablePtrs == {b.ptr : b \in table}

\* a probe that takes the first entry with the hash of the unique's payload
MatchesHashOnly(u) == {b \in table : b.hash = dedup_hash(value[u])}

\* HashTable::find(hash, eq) / HashTable::entry(hash, eq, hasher) with eq being
\* dedup_eq(&unique, &entry.inner): the matching pointer, 0 for None / Vacant
Matches(u) == {b \in table : b.hash = dedup_hash(value[u])
                             /\ dedup_eq(value[u], value[b.ptr])}
Find(u) == IF Matches(u) = {} THEN 0 ELSE (CHOOSE b \in Matches(u) : TRUE).ptr

\* HashTable::find_entry(hash, |candidate| addr_eq(candidate, entry)) in forget
MatchesAddr(c) == {b \in table : b.hash = dedup_hash(value[c]) /\ b.ptr = c}

LockFree == writer = 0 /\ readers = {}

\* find_or_remember: table.read(), then read.find(..)
FrReadProbe(t) ==
    /\ Idle(t) /\ unique[t] # 0 /\ Held(t) < MaxHeld
    /\ kind[unique[t]] = "plain"
    /\ writer = 0
    /\ readers' = readers \cup {t}
    /\ found' = [found EXCEPT ![t] = Find(unique[t])]
    /\ pc' = [pc EXCEPT ![t] = "fr_read"]
    /\ ev' = NoEvent
    /\ UNCHANGED <<restVars, cellVars, count, dtorRuns, deallocs, table, writer, cur, shared,
                   unique, aborted>>

\* ArcBorrow::clone_pinned_arc(found): inc_count on the cell the table points at
CloneFound(t, prev) ==
    /\ inc_count(found[t], prev)
    /\ shared' = [shared EXCEPT ![t][found[t]] = IF IncAborts(prev) THEN @ ELSE @ + 1]
    /\ found' = [found EXCEPT ![t] = IF IncAborts(prev) THEN @ ELSE 0]
    /\ pc' = [pc EXCEPT ![t] = IF IncAborts(prev) THEN @ ELSE "idle"]

\* Some(&found) under the read lock: clone, return (handle, Some(unique)), unlock
FrReadHit(t) ==
    /\ ~aborted /\ pc[t] = "fr_read" /\ found[t] # 0
    /\ \E prev \in CountRead(found[t]) :
        /\ CloneFound(t, prev)
        /\ ev' = Event(IF IncAborts(prev) THEN "abort" ELSE "fr_hit", t, found[t])
    /\ readers' = readers \ {t}
    /\ UNCHANGED <<restVars, cellVars, dtorRuns, deallocs, table, writer, cur, unique>>

\* None under the read lock: the read guard is dropped before table.write()
FrReadMiss(t) ==
    /\ ~aborted /\ pc[t] = "fr_read" /\ found[t] = 0
    /\ readers' = readers \ {t}
    /\ pc' = [pc EXCEPT ![t] = "fr_wait"]
    /\ ev' = NoEvent
    /\ UNCHANGED <<restVars, cellVars, count, dtorRuns, deallocs, table, writer, cur, found,
                   shared, unique, aborted>>

\* table.write(), then write.entry(hash, eq, hasher)
FrWriteProbe(t) ==
    /\ ~aborted /\ pc[t] = "fr_wait"
    /\ LockFree
    /\ writer' = t
    /\ found' = [found EXCEPT ![t] = Find(unique[t])]
    /\ pc' = [pc EXCEPT ![t] = "fr_write"]
    /\ ev' = NoEvent
    /\ UNCHANGED <<restVars, cellVars, count, dtorRuns, deallocs, table, readers, cur, shared,
                   unique, aborted>>

\* Occupied(entry): as the hit under the read lock
FrOccupied(t) ==
    /\ ~aborted /\ pc[t] = "fr_write" /\ found[t] # 0
    /\ \E prev \in CountRead(found[t]) :
        /\ CloneFound(t, prev)
        /\ ev' = Event(IF IncAborts(prev) THEN "abort" ELSE "fr_occupied", t, found[t])
        /\ raced' = [raced EXCEPT ![t] = IF IncAborts(prev) THEN @ ELSE 0]
    /\ writer' = 0
    /\ UNCHANGED <<onceVars, borrowVars, libVars, nestVars, layoutVars, cellVars, dtorRuns, deallocs, table, readers,
                   cur, unique>>

\* Vacant(entry): the unique's cell is re-typed as DedupEntry<T, D>, turned into
\* an Arc without touching the count, and its pointer is inserted
InsertEntry(u) == table' = table \cup {Bucket(dedup_hash(value[u]), u)}

\* the thread x missed under the read lock, has not yet taken the write lock,
\* and its payload is dedup_eq to the payload of the cell u being inserted
Overtaken(x, u) == pc[x] = "fr_wait" /\ dedup_eq(value[unique[x]], value[u])

FrVacant(t) ==
    /\ ~aborted /\ pc[t] = "fr_write" /\ found[t] = 0
    /\ LET u == unique[t] IN
        /\ kind' = [kind EXCEPT ![u] = "entry"]
        /\ InsertEntry(u)
        /\ unique' = [unique EXCEPT ![t] = 0]
        /\ shared' = [shared EXCEPT ![t][u] = @ + 1]
        /\ ev' = Event("fr_insert", t, u)
        /\ raced' = [x \in Threads |-> IF x = t THEN 0 ELSE IF Overtaken(x, u) THEN u ELSE raced[x]]
    /\ writer' = 0
    /\ pc' = [pc EXCEPT ![t] = "idle"]
    /\ UNCHANGED <<onceVars, borrowVars, libVars, nestVars, layoutVars, mem, value, count, dtorRuns, deallocs, readers,
                   cur, found, aborted>>

\* DedupEntry::drop -> forget: dedup_hash(&entry.inner), then table.write()
ForgetLock(t) ==
    /\ ~aborted /\ pc[t] = "drop_in_place" /\ cur[t] # 0 /\ kind[cur[t]] = "entry"
    /\ LockFree
    /\ writer' = t
    /\ pc' = [pc EXCEPT ![t] = "forget"]
    /\ ev' = NoEvent
    /\ UNCHANGED <<restVars, cellVars, count, dtorRuns, deallocs, table, readers, cur, found,
                   shared, unique, aborted>>

\* a forget whose write guard outlives it
ForgetRemoveKeepsGuard(t) ==
    /\ ~aborted /\ pc[t] = "forget"
    /\ table' = IF MatchesAddr(cur[t]) # {} THEN table \ MatchesAddr(cur[t]) ELSE table
    /\ aborted' = (MatchesAddr(cur[t]) = {})
    /\ pc' = [pc EXCEPT ![t] = IF MatchesAddr(cur[t]) # {} THEN "drop_inner" ELSE @]
    /\ ev' = Event(IF MatchesAddr(cur[t]) # {} THEN "forget" ELSE "forget_abort", t, cur[t])
    /\ UNCHANGED <<restVars, cellVars, count, dtorRuns, deallocs, lockVars, cur, found, shared,
                   unique>>

\* forget: find_entry by address; Ok(entry) => entry.remove(), Err(_) => abort()
ForgetFinds(c) == MatchesAddr(c) # {}

\* a forget that finds the entry and leaves it in the table
RemoveEntryKeepsIt(c) == table

\* a forget that removes the entries at the other addresses
RemoveEntryOther(c) == MatchesAddr(c)

RemoveEntry(c) == table \ MatchesAddr(c)

ForgetRemove(t) ==
    /\ ~aborted /\ pc[t] = "forget"
    /\ table' = IF ForgetFinds(cur[t]) THEN RemoveEntry(cur[t]) ELSE table
    /\ aborted' = ~ForgetFinds(cur[t])
    /\ writer' = IF ForgetFinds(cur[t]) THEN 0 ELSE writer
    /\ pc' = [pc EXCEPT ![t] = IF ForgetFinds(cur[t]) THEN "drop_inner" ELSE @]
    /\ ev' = Event(IF ForgetFinds(cur[t]) THEN "forget" ELSE "forget_abort", t, cur[t])
    /\ UNCHANGED <<restVars, cellVars, count, dtorRuns, deallocs, readers, cur, found, shared,
                   unique>>

\* ----------------------------------------------------------------- once.rs
\* ArcOnce<A> with A = Arc<T>.  A handle on cell c is the pointer word c and,
\* when pointers to T are fat, the metadata word MetaOf(c).

\* the address usize::MAX that set stores while it publishes
SENTINEL == USIZE_MAX
MetaOf(c) == MaxCells + c

OncePcs == {"set_cas", "set_meta", "set_store", "get_spin"}

\* &mut self: no other call on the ArcOnce is running
Exclusive == \A u \in Threads : pc[u] \notin OncePcs

\* ArcOnce::default(): MaybeUninit::zeroed(); the width of A is fixed by its type
OnceNew(t) ==
    /\ Idle(t) /\ ~slotAlive
    /\ slotAlive' = TRUE
    /\ fat' \in BOOLEAN
    /\ niche' = 0 /\ meta' = 0 /\ setWins' = 0
    /\ ev' = NoEvent
    /\ UNCHANGED <<histVars, nestVars, layoutVars, borrowVars, libVars, cellVars, count, dtorRuns, deallocs, table, lockVars,
                   pc, cur, found, shared, unique, aborted, arg>>

\* set, thin: compare_exchange(null, value, Release, Relaxed); Ok => None,
\* Err => Some(value)
OnceSetThin(t, c) ==
    /\ Idle(t) /\ slotAlive /\ ~fat /\ shared[t][c] > 0
    /\ niche' = IF niche = 0 THEN c ELSE niche
    /\ shared' = [shared EXCEPT ![t][c] = IF niche = 0 THEN @ - 1 ELSE @]
    /\ setWins' = IF niche = 0 THEN setWins + 1 ELSE setWins
    /\ ev' = Event(IF niche = 0 THEN "set_none" ELSE "set_some", t, c)
    /\ UNCHANGED <<histVars, nestVars, layoutVars, borrowVars, libVars, cellVars, count, dtorRuns, deallocs, table, lockVars,
                   pc, cur, found, unique, aborted, slotAlive, fat, meta, arg>>

\* a set that gives up unless the value it read is null
SpinsOnNullOnly(niche_value) == niche_value = 0

\* a set that stays in its loop whatever it read
SpinsOnAnything(niche_value) == TRUE

\* a set that gives up on a null it read in a failed exchange
SpinsOnSentinelOnly(niche_value) == niche_value = SENTINEL

\* set, fat, Err(niche_value): niche_value.addr().wrapping_add(1) <= 1 spins
SpinsOn(niche_value) == (niche_value + 1) % (USIZE_MAX + 1) <= 1

\* an exchange that does not compare
CasWeakAlwaysOk == {"ok", "err"}

\* the outcomes of compare_exchange_weak(null, SENTINEL, AcqRel, Relaxed): Ok
\* only on null, Err with the value read, which may be null (spurious failure)
CasWeakOutcomes == IF niche = 0 THEN {"ok", "err"} ELSE {"err"}

\* set, fat: one turn of the loop around compare_exchange_weak
OnceSetCas(t, c) ==
    /\ ~aborted /\ slotAlive /\ fat
    /\ \/ pc[t] = "idle" /\ shared[t][c] > 0
       \/ pc[t] = "set_cas" /\ arg[t] = c
    /\ \E outcome \in CasWeakOutcomes :
        /\ niche' = IF outcome = "ok" THEN SENTINEL ELSE niche
        /\ pc' = [pc EXCEPT ![t] = IF outcome = "ok" THEN "set_meta"
                                   ELSE IF SpinsOn(niche) THEN "set_cas" ELSE "idle"]
        /\ arg' = [arg EXCEPT ![t] = IF outcome = "err" /\ ~SpinsOn(niche) THEN 0 ELSE c]
        /\ ev' = Event(IF outcome = "ok" THEN "set_publishing"
                       ELSE IF SpinsOn(niche) THEN "set_spin" ELSE "set_some", t, c)
    /\ UNCHANGED <<histVars, nestVars, layoutVars, borrowVars, libVars, cellVars, count, dtorRuns, deallocs, table, lockVars,
                   cur, found, shared, unique, aborted, slotAlive, fat, meta, setWins>>

\* Ok(_): self.nonatomic().set(*value_nonatomic_ptr)
OnceSetMeta(t) ==
    /\ ~aborted /\ pc[t] = "set_meta"
    /\ meta' = MetaOf(arg[t])
    /\ pc' = [pc EXCEPT ![t] = "set_store"]
    /\ ev' = NoEvent
    /\ UNCHANGED <<histVars, nestVars, layoutVars, borrowVars, libVars, cellVars, count, dtorRuns, deallocs, table, lockVars,
                   cur, found, shared, unique, aborted, slotAlive, fat, niche, arg,
                   setWins>>

\* self.atomic().store(*value_niche_ptr, Release); return None
OnceSetStore(t) ==
    /\ ~aborted /\ pc[t] = "set_store"
    /\ niche' = arg[t]
    /\ shared' = [shared EXCEPT ![t][arg[t]] = @ - 1]
    /\ setWins' = setWins + 1
    /\ pc' = [pc EXCEPT ![t] = "idle"]
    /\ arg' = [arg EXCEPT ![t] = 0]
    /\ ev' = Event("set_none", t, arg[t])
    /\ UNCHANGED <<histVars, nestVars, layoutVars, borrowVars, libVars, cellVars, count, dtorRuns, deallocs, table, lockVars,
                   cur, found, unique, aborted, slotAlive, fat, meta>>

\* get: load(Acquire); 0 => None, usize::MAX => loop again (fat only),
\* otherwise Some(assume_init_ref())
\* a get that takes whatever is not null for a handle
GetSpinsNever == FALSE

GetSpins == fat /\ niche = SENTINEL

OnceGet(t) ==
    /\ ~aborted /\ slotAlive /\ pc[t] \in {"idle", "get_spin"}
    /\ pc' = [pc EXCEPT ![t] = IF GetSpins THEN "get_spin" ELSE "idle"]
    /\ ev' = Event(IF niche = 0 THEN "get_none"
                   ELSE IF GetSpins THEN "get_spin" ELSE "get_some", t, niche)
    /\ UNCHANGED <<histVars, nestVars, layoutVars, borrowVars, libVars, onceVars, cellVars, count, dtorRuns, deallocs, table,
                   lockVars, cur, found, shared, unique, aborted>>

\* a take that copies the handle out and leaves the words in the ArcOnce
OnceTakeKeeps(t) ==
    /\ Idle(t) /\ slotAlive /\ Exclusive /\ Held(t) < MaxHeld
    /\ shared' = IF niche = 0 THEN shared ELSE [shared EXCEPT ![t][niche] = @ + 1]
    /\ ev' = Event(IF niche = 0 THEN "take_none" ELSE "take_some", t, niche)
    /\ UNCHANGED <<histVars, nestVars, layoutVars, borrowVars, libVars, cellVars, count, dtorRuns, deallocs, table, lockVars,
                   pc, cur, found, unique, aborted, onceVars>>

\* take(&mut self): load(Acquire); 0 => None, otherwise mem::take(self) zeroes
\* the ArcOnce and the words taken out are returned as the handle
OnceTake(t) ==
    /\ Idle(t) /\ slotAlive /\ Exclusive /\ Held(t) < MaxHeld
    /\ niche' = 0 /\ meta' = 0
    /\ setWins' = IF niche = 0 THEN setWins ELSE 0
    /\ shared' = IF niche = 0 THEN shared ELSE [shared EXCEPT ![t][niche] = @ + 1]
    /\ ev' = Event(IF niche = 0 THEN "take_none" ELSE "take_some", t, niche)
    /\ UNCHANGED <<histVars, nestVars, layoutVars, borrowVars, libVars, cellVars, count, dtorRuns, deallocs, table, lockVars,
                   pc, cur, found, unique, aborted, slotAlive, fat, arg>>

\* a drop of the ArcOnce that forgets the handle it holds
OnceDropLeaks(t) ==
    /\ Idle(t) /\ slotAlive /\ Exclusive
    /\ slotAlive' = FALSE
    /\ niche' = 0 /\ meta' = 0 /\ setWins' = 0
    /\ ev' = Event("once_drop", t, niche)
    /\ UNCHANGED <<histVars, nestVars, layoutVars, borrowVars, libVars, cellVars, count, pc, cur, dtorRuns, deallocs, table,
                   lockVars, found, shared, unique, aborted, fat, arg>>

\* Drop for ArcOnce: self.take(); the Option<A> it returns is dropped at once,
\* which is Arc::drop on the handle taken out
OnceDrop(t) ==
    /\ Idle(t) /\ slotAlive /\ Exclusive
    /\ slotAlive' = FALSE
    /\ niche' = 0 /\ meta' = 0 /\ setWins' = 0
    /\ ev' = Event("once_drop", t, niche)
    /\ IF niche = 0
       THEN UNCHANGED <<count, pc, cur>>
       ELSE \E prev \in CountRead(niche) :
               /\ count' = [count EXCEPT ![niche] = dec_count(prev)]
               /\ pc' = [pc EXCEPT ![t] = IF EntersDropTail(prev) THEN "acquire" ELSE "idle"]
               /\ cur' = [cur EXCEPT ![t] = IF EntersDropTail(prev) THEN niche ELSE 0]
    /\ UNCHANGED <<histVars, nestVars, layoutVars, borrowVars, libVars, cellVars, dtorRuns, deallocs, table, lockVars, found,
                   shared, unique, aborted, fat, arg>>

\* ------------------------------------------------------- generic_singleton
\* singleton_with::<T>(construct) on the types Types; a constructor is the value
\* it would produce, a reference is the Box it leaked.

Ref(T, v, n) == [type |-> T, val |-> v, run |-> n]
NoRef == Ref(0, 0, 0)

\* CacheSlot::<T>::slot() is one static per T; LOCAL_SINGLETON_TABLE is one
\* table per thread
CacheKeys == {0} \cup Threads
CacheKey(t) == IF sgStatic THEN 0 ELSE t

\* a cache that keeps every type in the same slot
SlotOfShared(T) == 1

\* the slot of T: the symbol of CacheSlot::<T>::slot, the key TypeId::of::<T>()
SlotOf(T) == T

SgPcs == {"sg_read", "sg_found", "sg_wlock", "sg_insert", "sg_once", "sg_ctor",
          "sg_store"}

SgStep(t, T) == Event("sg_step", t, T)
SgReturn(t, T) == Event("sg_return", t, T)

\* with_construct_ref: CacheSlot::get's load() / singleton_local's
\* local_table.get(); a hit returns the cached reference
SgCall(t, T, v) ==
    /\ Idle(t)
    /\ LET cached == sgCache[CacheKey(t)][SlotOf(T)] IN
        /\ sgT' = [sgT EXCEPT ![t] = IF cached = NoRef THEN T ELSE 0]
        /\ sgCtor' = [sgCtor EXCEPT ![t] = IF cached = NoRef THEN v ELSE 0]
        /\ pc' = [pc EXCEPT ![t] = IF cached = NoRef THEN "sg_read" ELSE "idle"]
        /\ sgReturned' = IF cached = NoRef THEN sgReturned
                         ELSE [sgReturned EXCEPT ![T] = @ \cup {cached}]
        /\ ev' = IF cached = NoRef THEN SgStep(t, T) ELSE SgReturn(t, T)
    /\ sgInserts' = [sgInserts EXCEPT ![t] = 0]
    /\ UNCHANGED <<arcaneVars, slotVars, aborted, sgStatic, sgTable, sgLockVars, sgOnce, sgInit,
                   sgCache, sgMade, sgFound, sgGot>>

\* singleton_global: GLOBAL_SINGLETON_TABLE.read(), read.get::<OnceLock<&T>>()
SgReadLock(t) ==
    /\ ~aborted /\ pc[t] = "sg_read"
    /\ sgWriter = 0
    /\ sgReaders' = sgReaders \cup {t}
    /\ sgFound' = [sgFound EXCEPT ![t] = sgT[t] \in sgTable]
    /\ pc' = [pc EXCEPT ![t] = "sg_found"]
    /\ ev' = SgStep(t, sgT[t])
    /\ UNCHANGED <<arcaneVars, slotVars, aborted, sgStatic, sgTable, sgWriter, sgOnce, sgInit,
                   sgCache, sgMade, sgReturned, sgT, sgCtor, sgGot, sgInserts>>

\* a singleton_global that keeps the read guard over get_or_init
SgReadKeepsGuard(t) ==
    /\ ~aborted /\ pc[t] = "sg_found"
    /\ pc' = [pc EXCEPT ![t] = IF sgFound[t] THEN "sg_once" ELSE "sg_wlock"]
    /\ sgFound' = [sgFound EXCEPT ![t] = FALSE]
    /\ ev' = SgStep(t, sgT[t])
    /\ UNCHANGED <<arcaneVars, slotVars, aborted, sgStatic, sgTable, sgLockVars, sgOnce, sgInit,
                   sgCache, sgMade, sgReturned, sgT, sgCtor, sgGot, sgInserts>>

\* the read guard is dropped at the end of the block, before get_or_init
SgReadUnlock(t) ==
    /\ ~aborted /\ pc[t] = "sg_found"
    /\ sgReaders' = sgReaders \ {t}
    /\ pc' = [pc EXCEPT ![t] = IF sgFound[t] THEN "sg_once" ELSE "sg_wlock"]
    /\ sgFound' = [sgFound EXCEPT ![t] = FALSE]
    /\ ev' = SgStep(t, sgT[t])
    /\ UNCHANGED <<arcaneVars, slotVars, aborted, sgStatic, sgTable, sgWriter, sgOnce, sgInit,
                   sgCache, sgMade, sgReturned, sgT, sgCtor, sgGot, sgInserts>>

\* GLOBAL_SINGLETON_TABLE.write()
SgWriteLock(t) ==
    /\ ~aborted /\ pc[t] = "sg_wlock"
    /\ sgWriter = 0 /\ sgReaders = {}
    /\ sgWriter' = t
    /\ pc' = [pc EXCEPT ![t] = "sg_insert"]
    /\ ev' = SgStep(t, sgT[t])
    /\ UNCHANGED <<arcaneVars, slotVars, aborted, sgStatic, sgTable, sgReaders, sgOnce, sgInit,
                   sgCache, sgMade, sgReturned, sgT, sgCtor, sgFound, sgGot, sgInserts>>

\* a write-locked step that leaves the table as it found it
SgInsertNothing(t) ==
    /\ ~aborted /\ pc[t] = "sg_insert"
    /\ sgWriter' = 0
    /\ pc' = [pc EXCEPT ![t] = "sg_read"]
    /\ ev' = SgStep(t, sgT[t])
    /\ sgInserts' = [sgInserts EXCEPT ![t] = IF @ < MaxRuns THEN @ + 1 ELSE @]
    /\ UNCHANGED <<arcaneVars, slotVars, aborted, sgStatic, sgTable, sgReaders, sgOnce, sgInit,
                   sgCache, sgMade, sgReturned, sgT, sgCtor, sgFound, sgGot>>

\* write.get_or_insert_with(|| Box::leak(Box::new(OnceLock::new()))), the guard
\* is dropped and the loop starts again
SgInsert(t) ==
    /\ ~aborted /\ pc[t] = "sg_insert"
    /\ sgTable' = sgTable \cup {sgT[t]}
    /\ sgWriter' = 0
    /\ pc' = [pc EXCEPT ![t] = "sg_read"]
    /\ ev' = SgStep(t, sgT[t])
    /\ sgInserts' = [sgInserts EXCEPT ![t] = IF @ < MaxRuns THEN @ + 1 ELSE @]
    /\ UNCHANGED <<arcaneVars, slotVars, aborted, sgStatic, sgReaders, sgOnce, sgInit, sgCache,
                   sgMade, sgReturned, sgT, sgCtor, sgFound, sgGot>>

\* an OnceLock that runs the initializer of every caller
OnceLockIsUnsetAlways(T) == TRUE

\* OnceLock::get_or_init runs its argument iff the lock is not set
OnceLockIsUnset(T) == sgOnce[T] = NoRef

\* found.get_or_init(construct): the value if set; else this thread becomes the
\* initializer unless another one is, in which case the call waits
SgOnceInit(t) ==
    /\ ~aborted /\ pc[t] = "sg_once"
    /\ LET T == sgT[t] IN
        IF OnceLockIsUnset(T)
        THEN /\ sgInit[T] = 0 /\ Cardinality(sgMade[T]) < MaxRuns
             /\ sgInit' = [sgInit EXCEPT ![T] = t]
             /\ pc' = [pc EXCEPT ![t] = "sg_ctor"]
             /\ UNCHANGED sgGot
        ELSE /\ sgGot' = [sgGot EXCEPT ![t] = sgOnce[T]]
             /\ pc' = [pc EXCEPT ![t] = "sg_store"]
             /\ UNCHANGED sgInit
    /\ ev' = SgStep(t, sgT[t])
    /\ UNCHANGED <<arcaneVars, slotVars, aborted, sgStatic, sgTable, sgLockVars, sgOnce, sgCache,
                   sgMade, sgReturned, sgT, sgCtor, sgFound, sgInserts>>

\* the initializer: Box::leak(Box::new(construct())), stored in the OnceLock
SgConstruct(t) ==
    /\ ~aborted /\ pc[t] = "sg_ctor"
    /\ LET T == sgT[t]
           made == Ref(T, sgCtor[t], Cardinality(sgMade[T]) + 1)
       IN /\ sgMade' = [sgMade EXCEPT ![T] = @ \cup {made}]
          /\ sgOnce' = [sgOnce EXCEPT ![T] = made]
          /\ sgInit' = [sgInit EXCEPT ![T] = 0]
          /\ sgGot' = [sgGot EXCEPT ![t] = made]
    /\ pc' = [pc EXCEPT ![t] = "sg_store"]
    /\ ev' = SgStep(t, sgT[t])
    /\ UNCHANGED <<arcaneVars, slotVars, aborted, sgStatic, sgTable, sgLockVars, sgCache,
                   sgReturned, sgT, sgCtor, sgFound, sgInserts>>

\* CacheSlot::store(obtained) / local_table.get_or_insert_with(|| result), and
\* the return of singleton_with
SgStore(t) ==
    /\ ~aborted /\ pc[t] = "sg_store"
    /\ LET T == sgT[t]
           k == CacheKey(t)
       IN /\ sgCache' = [sgCache EXCEPT ![k][SlotOf(T)] =
                            IF sgStatic \/ @ = NoRef THEN sgGot[t] ELSE @]
          /\ sgReturned' = [sgReturned EXCEPT ![T] = @ \cup {sgGot[t]}]
    /\ pc' = [pc EXCEPT ![t] = "idle"]
    /\ sgT' = [sgT EXCEPT ![t] = 0]
    /\ sgCtor' = [sgCtor EXCEPT ![t] = 0]
    /\ sgGot' = [sgGot EXCEPT ![t] = NoRef]
    /\ ev' = SgReturn(t, sgT[t])
    /\ UNCHANGED <<arcaneVars, slotVars, aborted, sgStatic, sgTable, sgLockVars, sgOnce, sgInit,
                   sgMade, sgFound, sgInserts>>

\* ----------------------------------------------- inline_cache, rwlock fallback
\* type_cache::<T, K>() with fallback_rwlock: the key is the TypeId of
\* InlineCache<T, K>, the storage is Layout::new::<T>() from alloc_zeroed.

NoId == <<0, 0>>

\* a key that forgets the tag K
TypeIdOfType(id) == id[1]

\* inline_cache_id::<T, K>(): a TypeId per pair
TypeIdOf(id) == (id[1] - 1) * Cardinality(SlotTags) + id[2]
TypeIds == 1..Cardinality(SlotIds)

\* a word of memory the allocator has not zeroed holds anything but zero here
GarbageWord == MaxUses + 1

\* an allocation that leaves the memory as it finds it
alloc_unzeroed(a, n) == heap

\* std::alloc::alloc_zeroed(layout): the n words at a are zero
alloc_zeroed(a, n) == [x \in Addrs |-> IF a <= x /\ x < a + n THEN 0 ELSE heap[x]]

\* the allocator hands out no address twice: an allocation of no words still
\* takes an address of its own
Footprint(n) == IF n = 0 THEN 1 ELSE n

\* the results of the allocator: a pointer, or null (handle_alloc_error aborts)
AllocOutcomes == {"ptr", "null"}

\* the words of the slot of id when it is stored at address a
SlotWords(id, a) == {x \in Addrs : a <= x /\ x < a + SizeOf(id[1])}

\* type_cache: key(), CACHE.read(), cache.get(&type_id)
TcReadLock(t, id) ==
    /\ Idle(t)
    /\ tcWriter = 0
    /\ tcReaders' = tcReaders \cup {t}
    /\ tcId' = [tcId EXCEPT ![t] = id]
    /\ tcFound' = [tcFound EXCEPT ![t] = tcMap[TypeIdOf(id)]]
    /\ pc' = [pc EXCEPT ![t] = "tc_read"]
    /\ ev' = Event("tc_step", t, 0)
    /\ UNCHANGED <<arcaneVars, singletonVars, wasmVars, aborted, tcMap, tcWriter, heap, heapTop,
                   tcReturned>>

\* Some(found) => return found.0, the guard is dropped; None => the guard is
\* dropped and type_cache_fallback is called
TcReadUnlock(t) ==
    /\ ~aborted /\ pc[t] = "tc_read"
    /\ tcReaders' = tcReaders \ {t}
    /\ pc' = [pc EXCEPT ![t] = IF tcFound[t] # 0 THEN "idle" ELSE "tc_wlock"]
    /\ tcReturned' = IF tcFound[t] # 0
                     THEN [tcReturned EXCEPT ![tcId[t]] = @ \cup {tcFound[t]}]
                     ELSE tcReturned
    /\ tcId' = [tcId EXCEPT ![t] = IF tcFound[t] # 0 THEN NoId ELSE @]
    /\ tcFound' = [tcFound EXCEPT ![t] = 0]
    /\ ev' = Event(IF tcFound[t] # 0 THEN "tc_return" ELSE "tc_step", t, tcFound[t])
    /\ UNCHANGED <<arcaneVars, singletonVars, wasmVars, aborted, tcMap, tcWriter, heap, heapTop>>

\* type_cache_fallback: CACHE.write()
TcWriteLock(t) ==
    /\ ~aborted /\ pc[t] = "tc_wlock"
    /\ tcWriter = 0 /\ tcReaders = {}
    /\ tcWriter' = t
    /\ pc' = [pc EXCEPT ![t] = "tc_entry"]
    /\ ev' = Event("tc_step", t, 0)
    /\ UNCHANGED <<arcaneVars, singletonVars, wasmVars, aborted, tcMap, tcReaders, heap, heapTop,
                   tcId, tcFound, tcReturned>>

\* cache.entry(key()): Occupied => the address stored
TcOccupied(t) ==
    /\ ~aborted /\ pc[t] = "tc_entry"
    /\ tcMap[TypeIdOf(tcId[t])] # 0
    /\ tcWriter' = 0
    /\ tcReturned' = [tcReturned EXCEPT ![tcId[t]] = @ \cup {tcMap[TypeIdOf(tcId[t])]}]
    /\ tcId' = [tcId EXCEPT ![t] = NoId]
    /\ pc' = [pc EXCEPT ![t] = "idle"]
    /\ ev' = Event("tc_return", t, tcMap[TypeIdOf(tcId[t])])
    /\ UNCHANGED <<arcaneVars, singletonVars, wasmVars, aborted, tcMap, tcReaders, heap, heapTop,
                   tcFound>>

\* a fallback that allocates and inserts without looking at the entry
TcVacantUnchecked(t) ==
    /\ ~aborted /\ pc[t] = "tc_entry"
    /\ \E outcome \in AllocOutcomes :
        LET n == SizeOf(tcId[t][1])
            ok == outcome = "ptr" /\ heapTop + Footprint(n) - 1 \in Addrs
        IN /\ aborted' = ~ok
           /\ heap' = IF ok THEN alloc_zeroed(heapTop, n) ELSE heap
           /\ heapTop' = IF ok THEN heapTop + Footprint(n) ELSE heapTop
           /\ tcMap' = IF ok THEN [tcMap EXCEPT ![TypeIdOf(tcId[t])] = heapTop] ELSE tcMap
           /\ tcReturned' = IF ok THEN [tcReturned EXCEPT ![tcId[t]] = @ \cup {heapTop}]
                            ELSE tcReturned
           /\ tcWriter' = IF ok THEN 0 ELSE tcWriter
           /\ tcId' = [tcId EXCEPT ![t] = IF ok THEN NoId ELSE @]
           /\ pc' = [pc EXCEPT ![t] = IF ok THEN "idle" ELSE @]
           /\ ev' = Event(IF ok THEN "tc_alloc" ELSE "abort", t, heapTop)
    /\ UNCHANGED <<arcaneVars, singletonVars, wasmVars, tcReaders, tcFound>>

\* Vacant => alloc_zeroed(layout), entry.insert(Ptr(ptr)), the new address;
\* a null from the allocator ends in handle_alloc_error
TcVacant(t) ==
    /\ ~aborted /\ pc[t] = "tc_entry"
    /\ tcMap[TypeIdOf(tcId[t])] = 0
    /\ \E outcome \in AllocOutcomes :
        LET n == SizeOf(tcId[t][1])
            ok == outcome = "ptr" /\ heapTop + Footprint(n) - 1 \in Addrs
        IN /\ aborted' = ~ok
           /\ heap' = IF ok THEN alloc_zeroed(heapTop, n) ELSE heap
           /\ heapTop' = IF ok THEN heapTop + Footprint(n) ELSE heapTop
           /\ tcMap' = IF ok THEN [tcMap EXCEPT ![TypeIdOf(tcId[t])] = heapTop] ELSE tcMap
           /\ tcReturned' = IF ok THEN [tcReturned EXCEPT ![tcId[t]] = @ \cup {heapTop}]
                            ELSE tcReturned
           /\ tcWriter' = IF ok THEN 0 ELSE tcWriter
           /\ tcId' = [tcId EXCEPT ![t] = IF ok THEN NoId ELSE @]
           /\ pc' = [pc EXCEPT ![t] = IF ok THEN "idle" ELSE @]
           /\ ev' = Event(IF ok THEN "tc_alloc" ELSE "abort", t, heapTop)
    /\ UNCHANGED <<arcaneVars, singletonVars, wasmVars, tcReaders, tcFound>>

\* a user of the slot: fetch_add(1, Relaxed) on the AtomicUsize at the address
\* some call has returned for id
TcUse(t, id) ==
    /\ Idle(t) /\ SizeOf(id[1]) > 0
    /\ \E a \in tcReturned[id] :
        /\ heap[a] < MaxUses
        /\ heap' = [heap EXCEPT ![a] = @ + 1]
        /\ ev' = Event("tc_use", t, a)
    /\ UNCHANGED <<arcaneVars, singletonVars, wasmVars, aborted, pc, tcMap, tcLockVars, heapTop,
                   tcId, tcFound, tcReturned>>

\* ------------------------------------------------- inline_cache, flat_wasm.rs
\* type_cache::<T, K>() with flat_wasm: key as usize, the index of the function
\* inline_cache_id::<T, K> in the function table, is an index into CACHE_BUF, a
\* buffer of pointers in front of CACHE, which is a Mutex here (tcWriter).

\* isize::MAX as usize
ISIZE_MAX == 2^(IndexBits - 1) - 1

\* key as usize: a function pointer is not null and two functions differ
FnIndex(id) == TypeIdOf(id)

\* what a slot that std::alloc::alloc handed out and nobody wrote holds: not
\* null here
UninitPtr == Cardinality(Addrs) + 1

\* CacheBufInit::new(AtomicPtr::new(null_mut())): last = 0, one null slot
CACHE_BUF_INIT == [last |-> 0, data |-> [i \in 0..0 |-> 0]]

Smaller(a, b) == IF a < b THEN a ELSE b
Larger(a, b) == IF a < b THEN b ELSE a

\* CacheBuf::get(index): data_ptr.add(index.min(last))
SlotIndex(index, b) == Smaller(index, b.last)

\* a len that is the number of slots
BufLenCountsSlots(b) == b.last + 1

\* CacheBuf::len(): the word in front of the data, which is last
BufLen(b) == b.last

\* (old_last * 2 + 1).max(target + 1)
NewLast(old_last, target) ==
    Larger((old_last * 2 + 1) % 2^IndexBits, (target + 1) % 2^IndexBits)

\* a grow that starts from an empty buffer
GrowInitFresh(i, key, found_ptr, old) == IF i = key THEN found_ptr ELSE 0

\* the closure type_cache_fallback passes to grow: found for the key, the old
\* slot (load(Acquire)) where old.get(i) is Some, null otherwise
GrowInit(i, key, found_ptr, old) ==
    IF i = key THEN found_ptr
    ELSE IF i <= old.last THEN old.data[i]
    ELSE 0

WcStep(t) == Event("wc_step", t, 0)

\* type_cache: CACHE_BUF.get(key as usize) loads CACHE_BUF.ptr (Acquire)
WcGet(t, id) ==
    /\ Idle(t)
    /\ tcId' = [tcId EXCEPT ![t] = id]
    /\ wbSeen' = [wbSeen EXCEPT ![t] = wbPtr]
    /\ pc' = [pc EXCEPT ![t] = "wc_load"]
    /\ ev' = WcStep(t)
    /\ UNCHANGED <<arcaneVars, singletonVars, aborted, tcMap, tcLockVars, heap, heapTop,
                   tcFound, tcReturned, wbBufs, wbPtr, wbGrow, wbNew, wbI>>

\* ptr.load(Relaxed) on the slot: non-null => found, null => the fallback
WcLoad(t) ==
    /\ ~aborted /\ pc[t] = "wc_load"
    /\ LET b == wbBufs[wbSeen[t]]
           target == b.data[SlotIndex(FnIndex(tcId[t]), b)]
       IN /\ pc' = [pc EXCEPT ![t] = IF target # 0 THEN "idle" ELSE "wc_lock"]
          /\ tcReturned' = IF target # 0
                           THEN [tcReturned EXCEPT ![tcId[t]] = @ \cup {target}]
                           ELSE tcReturned
          /\ tcId' = [tcId EXCEPT ![t] = IF target # 0 THEN NoId ELSE @]
          /\ ev' = IF target # 0 THEN Event("wc_hit", t, target) ELSE WcStep(t)
    /\ wbSeen' = [wbSeen EXCEPT ![t] = 0]
    /\ UNCHANGED <<arcaneVars, singletonVars, aborted, tcMap, tcLockVars, heap, heapTop,
                   tcFound, wbBufs, wbPtr, wbGrow, wbNew, wbI>>

\* type_cache_fallback: CACHE.lock()
WcLock(t) ==
    /\ ~aborted /\ pc[t] = "wc_lock"
    /\ tcWriter = 0
    /\ tcWriter' = t
    /\ pc' = [pc EXCEPT ![t] = "wc_entry"]
    /\ ev' = WcStep(t)
    /\ UNCHANGED <<arcaneVars, singletonVars, wasmVars, aborted, tcMap, tcReaders, heap,
                   heapTop, tcId, tcFound, tcReturned>>

\* cache.entry(key()): Occupied => the address stored; Vacant =>
\* alloc_zeroed(layout) and entry.insert, a null ends in handle_alloc_error
WcEntry(t) ==
    /\ ~aborted /\ pc[t] = "wc_entry"
    /\ LET k == TypeIdOf(tcId[t])
           n == SizeOf(tcId[t][1])
       IN IF tcMap[k] # 0
          THEN /\ tcFound' = [tcFound EXCEPT ![t] = tcMap[k]]
               /\ pc' = [pc EXCEPT ![t] = "wc_len"]
               /\ ev' = WcStep(t)
               /\ UNCHANGED <<aborted, heap, heapTop, tcMap>>
          ELSE \E outcome \in AllocOutcomes :
                 LET ok == outcome = "ptr" /\ heapTop + Footprint(n) - 1 \in Addrs
                 IN /\ aborted' = ~ok
                    /\ heap' = IF ok THEN alloc_zeroed(heapTop, n) ELSE heap
                    /\ heapTop' = IF ok THEN heapTop + Footprint(n) ELSE heapTop
                    /\ tcMap' = IF ok THEN [tcMap EXCEPT ![k] = heapTop] ELSE tcMap
                    /\ tcFound' = [tcFound EXCEPT ![t] = IF ok THEN heapTop ELSE @]
                    /\ pc' = [pc EXCEPT ![t] = IF ok THEN "wc_len" ELSE @]
                    /\ ev' = Event(IF ok THEN "wc_alloc" ELSE "abort", t, heapTop)
    /\ UNCHANGED <<arcaneVars, singletonVars, wasmVars, tcLockVars, tcId, tcReturned>>

\* if CACHE_BUF.len() <= key as usize { grow } else { store }
WcLen(t) ==
    /\ ~aborted /\ pc[t] = "wc_len"
    /\ pc' = [pc EXCEPT ![t] = IF BufLen(wbBufs[wbPtr]) <= FnIndex(tcId[t])
                               THEN "wc_glock" ELSE "wc_sget"]
    /\ ev' = WcStep(t)
    /\ UNCHANGED <<arcaneVars, singletonVars, wasmVars, aborted, tcMap, tcLockVars, heap,
                   heapTop, tcId, tcFound, tcReturned>>

\* CACHE_BUF.get(key as usize) of the store branch loads CACHE_BUF.ptr
WcStoreGet(t) ==
    /\ ~aborted /\ pc[t] = "wc_sget"
    /\ wbSeen' = [wbSeen EXCEPT ![t] = wbPtr]
    /\ pc' = [pc EXCEPT ![t] = "wc_store"]
    /\ ev' = WcStep(t)
    /\ UNCHANGED <<arcaneVars, singletonVars, aborted, tcMap, tcLockVars, heap, heapTop,
                   tcId, tcFound, tcReturned, wbBufs, wbPtr, wbGrow, wbNew, wbI>>

\* .store(found.as_ptr(), Release); found is returned and the guard of CACHE
\* is dropped
WcStore(t) ==
    /\ ~aborted /\ pc[t] = "wc_store"
    /\ LET b == wbBufs[wbSeen[t]]
       IN wbBufs' = [wbBufs EXCEPT ![wbSeen[t]].data[SlotIndex(FnIndex(tcId[t]), b)] =
                                       tcFound[t]]
    /\ tcWriter' = 0
    /\ tcReturned' = [tcReturned EXCEPT ![tcId[t]] = @ \cup {tcFound[t]}]
    /\ pc' = [pc EXCEPT ![t] = "idle"]
    /\ tcId' = [tcId EXCEPT ![t] = NoId]
    /\ tcFound' = [tcFound EXCEPT ![t] = 0]
    /\ wbSeen' = [wbSeen EXCEPT ![t] = 0]
    /\ ev' = Event("wc_return", t, tcFound[t])
    /\ UNCHANGED <<arcaneVars, singletonVars, aborted, tcMap, tcReaders, heap, heapTop,
                   wbPtr, wbGrow, wbNew, wbI>>

\* CacheBuf::grow: self.grow_lock.lock()
WcGrowLock(t) ==
    /\ ~aborted /\ pc[t] = "wc_glock"
    /\ wbGrow = 0
    /\ wbGrow' = t
    /\ pc' = [pc EXCEPT ![t] = "wc_galloc"]
    /\ ev' = WcStep(t)
    /\ UNCHANGED <<arcaneVars, singletonVars, aborted, tcMap, tcLockVars, heap, heapTop,
                   tcId, tcFound, tcReturned, wbBufs, wbPtr, wbSeen, wbNew, wbI>>

\* self.ptr.load(Acquire), old_last, the two aborts on isize::MAX, new_last,
\* std::alloc::alloc (a null ends in handle_alloc_error) and the write of
\* new_last in front of the data
WcGrowAlloc(t) ==
    /\ ~aborted /\ pc[t] = "wc_galloc"
    /\ LET target == FnIndex(tcId[t])
           old_last == wbBufs[wbPtr].last
           new_last == NewLast(old_last, target)
       IN \E outcome \in AllocOutcomes :
            LET ok == /\ outcome = "ptr"
                      /\ ~(target >= ISIZE_MAX)
                      /\ ~(new_last > ISIZE_MAX)
            IN /\ aborted' = ~ok
               /\ wbBufs' = IF ok
                            THEN Append(wbBufs, [last |-> new_last,
                                                 data |-> [i \in 0..new_last |-> UninitPtr]])
                            ELSE wbBufs
               /\ wbSeen' = [wbSeen EXCEPT ![t] = IF ok THEN wbPtr ELSE @]
               /\ wbNew' = [wbNew EXCEPT ![t] = IF ok THEN Len(wbBufs) + 1 ELSE @]
               /\ wbI' = [wbI EXCEPT ![t] = 0]
               /\ pc' = [pc EXCEPT ![t] = IF ok THEN "wc_ginit" ELSE @]
               /\ ev' = IF ok THEN WcStep(t) ELSE Event("abort", t, 0)
    /\ UNCHANGED <<arcaneVars, singletonVars, tcMap, tcLockVars, heap, heapTop, tcId,
                   tcFound, tcReturned, wbPtr, wbGrow>>

\* for i in 0..new_len { data_ptr.add(i).write(init(i, old_data)) }: one turn
WcGrowInit(t) ==
    /\ ~aborted /\ pc[t] = "wc_ginit"
    /\ wbI[t] <= wbBufs[wbNew[t]].last
    /\ wbBufs' = [wbBufs EXCEPT ![wbNew[t]].data[wbI[t]] =
                     GrowInit(wbI[t], FnIndex(tcId[t]), tcFound[t], wbBufs[wbSeen[t]])]
    /\ wbI' = [wbI EXCEPT ![t] = @ + 1]
    /\ ev' = WcStep(t)
    /\ UNCHANGED <<arcaneVars, singletonVars, aborted, pc, tcMap, tcLockVars, heap, heapTop,
                   tcId, tcFound, tcReturned, wbPtr, wbGrow, wbSeen, wbNew>>

\* self.ptr.store(data_ptr, Release); the guards of grow_lock and of CACHE are
\* dropped and found is returned
WcGrowPublish(t) ==
    /\ ~aborted /\ pc[t] = "wc_ginit"
    /\ wbI[t] > wbBufs[wbNew[t]].last
    /\ wbPtr' = wbNew[t]
    /\ wbGrow' = 0
    /\ tcWriter' = 0
    /\ tcReturned' = [tcReturned EXCEPT ![tcId[t]] = @ \cup {tcFound[t]}]
    /\ pc' = [pc EXCEPT ![t] = "idle"]
    /\ tcId' = [tcId EXCEPT ![t] = NoId]
    /\ tcFound' = [tcFound EXCEPT ![t] = 0]
    /\ wbSeen' = [wbSeen EXCEPT ![t] = 0]
    /\ wbNew' = [wbNew EXCEPT ![t] = 0]
    /\ wbI' = [wbI EXCEPT ![t] = 0]
    /\ ev' = Event("wc_return", t, tcFound[t])
    /\ UNCHANGED <<arcaneVars, singletonVars, aborted, tcMap, tcReaders, heap, heapTop,
                   wbBufs>>

\* ------------------------------------------------- untyped.rs, ArcLayout
\* size_of::<AtomicUsize>() = align_of::<AtomicUsize>() in bytes; the model is
\* of a target whose usize has 16 bits, so that isize::MAX is within reach
USIZE_BYTES == 2
LAYOUT_USIZE_MAX == 2^(8 * USIZE_BYTES) - 1
LAYOUT_ISIZE_MAX == 2^(8 * USIZE_BYTES - 1) - 1

\* payload sizes go from 0 to MaxPayload and from isize::MAX - MaxPayload to
\* isize::MAX, alignments from 1 to 2^MaxAlignLog; the allocator returns one of
\* the first MaxBases non-null addresses of the alignment asked for
MaxPayload == 9
MaxAlignLog == 3
MaxBases == 2

RoundUpNoPadding(n, a) == n

\* Layout::size_rounded_up_to_custom_align: (size + align - 1) & !(align - 1)
RoundUp(n, a) == ((n + a - 1) \div a) * a

\* Layout::from_size_align of a power of two align: the size rounded up to
\* align does not exceed isize::MAX
ValidLayout(size, align) == size <= LAYOUT_ISIZE_MAX - (align - 1)

\* the layouts Layout::new::<T>() and Layout::array::<T>(len) can give
DataLayouts ==
    {d \in [size : (0..MaxPayload) \cup
                   ((LAYOUT_ISIZE_MAX - MaxPayload)..LAYOUT_ISIZE_MAX),
            align : {2^k : k \in 0..MaxAlignLog}] :
        ValidLayout(d.size, d.align)}

\* the layout of ()
UnitLayout == [size |-> 0, align |-> 1]

\* Layout::extend: next is placed after self at the first offset aligned for
\* it; Err if the size overflows usize or is no valid size for the alignment
extend(self, next) ==
    LET new_align == Larger(self.align, next.align)
        offset == RoundUp(self.size, next.align)
        new_size == offset + next.size
    IN  IF new_size > LAYOUT_USIZE_MAX \/ ~ValidLayout(new_size, new_align)
        THEN [ok |-> FALSE, size |-> 0, align |-> 1, offset |-> 0]
        ELSE [ok |-> TRUE, size |-> new_size, align |-> new_align, offset |-> offset]

\* Layout::pad_to_align
pad_to_align(l) == [size |-> RoundUp(l.size, l.align), align |-> l.align]

\* no ArcLayout: not computed yet, or Err(LayoutError)
NoArcLayout == [ok |-> FALSE, size |-> 0, align |-> 1, header_size |-> 0]

\* ArcLayout::from_data_layout: size and align are those of full_layout
from_data_layout(data) ==
    LET header_layout == [size |-> USIZE_BYTES, align |-> USIZE_BYTES]
        unpadded == extend(header_layout, data)
        full_layout == pad_to_align(unpadded)
    IN  IF ~unpadded.ok
        THEN NoArcLayout
        ELSE [ok |-> TRUE, size |-> full_layout.size, align |-> full_layout.align,
              header_size |-> unpadded.offset]

\* ArcLayout::data_layout
data_layout(layout) ==
    [size |-> layout.size - layout.header_size, align |-> layout.align]

\* UntypedArcPtr::from_alloc_ptr: ptr.byte_add(layout.header_size())
from_alloc_ptr(layout, ptr) == ptr + layout.header_size

\* UntypedArcPtr::as_alloc_ptr: self.ptr.sub(layout.header_size())
as_alloc_ptr(self, layout) == self - layout.header_size

\* UntypedArcPtr::count_ptr: self.ptr.cast::<AtomicUsize>().sub(1)
count_ptr(self) == self - USIZE_BYTES

\* what the computation of a layout and of the addresses of a cell leaves alone
cellFrame == <<mem, count, value, kind, dtorRuns, deallocs, table, readers, writer,
               pc, cur, found, shared, unique, aborted, ev, onceVars, borrowVars,
               libVars, histVars, nestVars>>

\* ArcLayout::new::<T>() and ArcLayout::array::<T>(len): the layout of the
\* cell is computed from the payload's
ArcLayoutNew ==
    /\ lyPc = "data"
    /\ lyArc' = from_data_layout(lyData)
    /\ lyPc' = IF lyArc'.ok THEN "layout" ELSE "err"
    /\ UNCHANGED <<lyData, lyBase, lyPtr, lyCount, lyFreed, cellFrame>>

\* UntypedArcPtr::alloc: std::alloc::alloc returns base, aligned for
\* full_layout; the count is written through count_ptr()
UntypedAlloc(base) ==
    /\ lyPc = "layout"
    /\ base \in {k * lyArc.align : k \in 1..MaxBases}
    /\ lyBase' = base
    /\ lyPtr' = from_alloc_ptr(lyArc, base)
    /\ lyCount' = count_ptr(lyPtr')
    /\ lyPc' = "alloc"
    /\ UNCHANGED <<lyData, lyArc, lyFreed, cellFrame>>

\* UntypedArcPtr::dealloc: as_alloc_ptr(layout) goes to std::alloc::dealloc
UntypedDealloc ==
    /\ lyPc = "alloc"
    /\ lyFreed' = as_alloc_ptr(lyPtr, lyArc)
    /\ lyPc' = "freed"
    /\ UNCHANGED <<lyData, lyArc, lyBase, lyPtr, lyCount, cellFrame>>

\* the layout of a cell is computed, the cell allocated and freed
NextLayout ==
    \/ ArcLayoutNew
    \/ \E base \in 1..(MaxBases * 2^MaxAlignLog) : UntypedAlloc(base)
    \/ UntypedDealloc

\* ------------------------------------------------------------ specification
InitState ==
    /\ mem = [c \in Cells |-> "unalloc"]
    /\ count = [c \in Cells |-> 0]
    /\ value = [c \in Cells |-> 0]
    /\ kind = [c \in Cells |-> "plain"]
    /\ dtorRuns = [c \in Cells |-> 0]
    /\ deallocs = [c \in Cells |-> 0]
    /\ table = {}
    /\ readers = {}
    /\ writer = 0
    /\ pc = [t \in Threads |-> "idle"]
    /\ cur = [t \in Threads |-> 0]
    /\ found = [t \in Threads |-> 0]
    /\ raced = [t \in Threads |-> 0]
    /\ stack = [t \in Threads |-> <<>>]
    /\ shared = [t \in Threads |-> [c \in Cells |-> 0]]
    /\ unique = [t \in Threads |-> 0]
    /\ aborted = FALSE
    /\ ev = NoEvent
    /\ slotAlive = FALSE
    /\ fat = FALSE
    /\ niche = 0
    /\ meta = 0
    /\ arg = [t \in Threads |-> 0]
    /\ setWins = 0
    /\ borrow = [t \in Threads |-> 0]
    /\ sgTable = {}
    /\ sgReaders = {}
    /\ sgWriter = 0
    /\ sgOnce = [T \in Types |-> NoRef]
    /\ sgInit = [T \in Types |-> 0]
    /\ sgCache = [k \in CacheKeys |-> [T \in Types |-> NoRef]]
    /\ sgMade = [T \in Types |-> {}]
    /\ sgReturned = [T \in Types |-> {}]
    /\ sgT = [t \in Threads |-> 0]
    /\ sgCtor = [t \in Threads |-> 0]
    /\ sgFound = [t \in Threads |-> FALSE]
    /\ sgGot = [t \in Threads |-> NoRef]
    /\ sgInserts = [t \in Threads |-> 0]
    /\ tcMap = [k \in TypeIds |-> 0]
    /\ tcReaders = {}
    /\ tcWriter = 0
    /\ heap = [a \in Addrs |-> GarbageWord]
    /\ heapTop = 1
    /\ tcId = [t \in Threads |-> NoId]
    /\ tcFound = [t \in Threads |-> 0]
    /\ tcReturned = [id \in SlotIds |-> {}]
    /\ wbBufs = <<CACHE_BUF_INIT>>
    /\ wbPtr = 1
    /\ wbGrow = 0
    /\ wbSeen = [t \in Threads |-> 0]
    /\ wbNew = [t \in Threads |-> 0]
    /\ wbI = [t \in Threads |-> 0]
    /\ lyArc = NoArcLayout
    /\ lyPc = "data"
    /\ lyBase = 0
    /\ lyPtr = 0
    /\ lyCount = 0
    /\ lyFreed = 0

\* the build of generic_singleton does not matter to the arcane crate
Init == InitState /\ sgStatic = TRUE /\ lyData = UnitLayout

\* generic_singleton is built with static_cache or with thread_local
InitSingleton == InitState /\ sgStatic \in BOOLEAN /\ lyData = UnitLayout

\* ArcLayout is given the layout of any payload
InitLayout == InitState /\ sgStatic = TRUE /\ lyData \in DataLayouts

SpecLayout == InitLayout /\ [][NextLayout]_vars

\* the zero-count tail shared by every owning handle
DropTail(t) ==
    \/ Acquire(t)
    \/ DropPayload(t)
    \/ Dealloc(t)

\* plain cells: Arc<T> and UniqueArc<T> only
NextArc ==
    \E t \in Threads :
        \/ \E v \in Values : ArcNew(t, v)
        \/ \E v \in Values : UniqueNew(t, v)
        \/ \E c \in Cells : ArcClone(t, c)
        \/ \E c \in Cells : ArcDrop(t, c)
        \/ \E c \in Cells : TryFrom(t, c)
        \/ \E c \in Cells : Deref(t, c)
        \/ UniqueDrop(t)
        \/ FromUnique(t)
        \/ DropTail(t)

SpecArc == Init /\ [][NextArc]_vars

\* cells made by UniqueArc::new whose every Arc comes from the conversion
NextFromUnique ==
    \E t \in Threads :
        \/ \E v \in Values : UniqueNew(t, v)
        \/ FromUnique(t)
        \/ \E c \in Cells : ArcClone(t, c)
        \/ \E c \in Cells : ArcDrop(t, c)
        \/ DropTail(t)

SpecFromUnique == Init /\ [][NextFromUnique]_vars

set(t) ==
    \/ \E c \in Cells : OnceSetThin(t, c)
    \/ \E c \in Cells : OnceSetCas(t, c)
    \/ OnceSetMeta(t)
    \/ OnceSetStore(t)

\* an ArcOnce<Arc<T>> shared by the threads, and the Arcs they put into it
NextOnce ==
    \E t \in Threads :
        \/ ArcNew(t, 1)
        \/ \E c \in Cells : ArcClone(t, c)
        \/ \E c \in Cells : ArcDrop(t, c)
        \/ DropTail(t)
        \/ OnceNew(t)
        \/ set(t)
        \/ OnceGet(t)
        \/ OnceTake(t)
        \/ OnceDrop(t)

SpecOnce == Init /\ [][NextOnce]_vars

\* a thread inside set or get goes on running: the publisher reaches its two
\* stores; a loop whose next turn can leave it, as long as nothing changes,
\* takes such a turn: compare_exchange_weak does not fail for ever on a word
\* that stays null
FairOnce ==
    \A t \in Threads :
        /\ WF_vars(OnceSetMeta(t))
        /\ WF_vars(OnceSetStore(t))
        /\ WF_vars(pc[t] = "get_spin" /\ OnceGet(t) /\ ev'.op # "get_spin")
        /\ WF_vars(pc[t] = "set_cas" /\ (\E c \in Cells : OnceSetCas(t, c))
                      /\ ev'.op # "set_spin")

SpecOnceFair == SpecOnce /\ FairOnce

singleton_global(t) ==
    \/ SgReadLock(t)
    \/ SgReadUnlock(t)
    \/ SgWriteLock(t)
    \/ SgInsert(t)
    \/ SgOnceInit(t)
    \/ SgConstruct(t)

\* the threads call singleton_with::<T>(|| v), each thread with a constructor
\* of its own (v = t)
NextSingleton ==
    \E t \in Threads :
        \/ \E T \in Types : SgCall(t, T, t)
        \/ singleton_global(t)
        \/ SgStore(t)

SpecSingleton == InitSingleton /\ [][NextSingleton]_vars

\* plain cells with borrows: the handle a borrow was made from stays
\* a thread inside singleton_global goes on running: the constructor returns,
\* and read() and write() return once the lock is free for them
FairSingleton ==
    \A t \in Threads :
        /\ WF_vars(singleton_global(t))
        /\ WF_vars(SgStore(t))

SpecSingletonFair == SpecSingleton /\ FairSingleton

NextBorrow ==
    \E t \in Threads :
        \/ ArcNew(t, 1)
        \/ \E c \in Cells : ArcClone(t, c)
        \/ \E c \in Cells : DropUnborrowed(t, c)
        \/ DropTail(t)
        \/ \E u \in Threads : \E c \in Cells : BorrowFrom(t, u, c)
        \/ \E u \in Threads : BorrowCopy(t, u)
        \/ BorrowDiscard(t)
        \/ CloneArc(t)

SpecBorrow == Init /\ [][NextBorrow]_vars

type_cache(t) ==
    \/ \E id \in SlotIds : TcReadLock(t, id)
    \/ TcReadUnlock(t)

type_cache_fallback(t) ==
    \/ TcWriteLock(t)
    \/ TcOccupied(t)
    \/ TcVacant(t)

\* the threads request slots and count in the slots they were given
NextSlot ==
    \E t \in Threads :
        \/ type_cache(t)
        \/ type_cache_fallback(t)
        \/ \E id \in SlotIds : TcUse(t, id)

SpecSlot == Init /\ [][NextSlot]_vars

flat_wasm_type_cache(t) ==
    \/ \E id \in SlotIds : WcGet(t, id)
    \/ WcLoad(t)

flat_wasm_type_cache_fallback(t) ==
    \/ WcLock(t)
    \/ WcEntry(t)
    \/ WcLen(t)
    \/ WcStoreGet(t)
    \/ WcStore(t)

grow(t) ==
    \/ WcGrowLock(t)
    \/ WcGrowAlloc(t)
    \/ WcGrowInit(t)
    \/ WcGrowPublish(t)

\* the threads request slots in the WASM build
NextWasm ==
    \E t \in Threads :
        \/ flat_wasm_type_cache(t)
        \/ flat_wasm_type_cache_fallback(t)
        \/ grow(t)

SpecWasm == Init /\ [][NextWasm]_vars

find_or_remember(t) ==
    \/ FrReadProbe(t)
    \/ FrReadHit(t)
    \/ FrReadMiss(t)
    \/ FrWriteProbe(t)
    \/ FrOccupied(t)
    \/ FrVacant(t)

forget(t) ==
    \/ ForgetLock(t)
    \/ ForgetRemove(t)

\* interned cells: UniqueArc<T> handed to the table, DedupArc<T, D> handles
Next ==
    \E t \in Threads :
        \/ \E v \in Values : UniqueNew(t, v)
        \/ find_or_remember(t)
        \/ \E c \in Cells : ArcClone(t, c)
        \/ \E c \in Cells : ArcDrop(t, c)
        \/ \E c \in Cells : Deref(t, c)
        \/ UniqueDrop(t)
        \/ DropTail(t)
        \/ forget(t)

Spec == Init /\ [][Next]_vars

\* interned cells whose payload may hold a DedupArc of the same table, as the
\* nodes of lhc_tree's SharedInner do
NextNested ==
    \/ Next
    \/ \E t \in Threads : \E d \in Cells : UniqueNewInner(t, d)

SpecNested == Init /\ [][NextNested]_vars

\* interned cells whose handles are also taken apart: DedupArc::into_entry
\* gives the Pin<Arc<DedupEntry<T, D>>>, Pin::into_inner the Arc (DedupEntry is
\* Unpin when T and D are), and UniqueArc::try_from and Arc::from convert it
NextUnique ==
    \/ Next
    \/ \E t \in Threads :
        \/ \E c \in Cells : TryFrom(t, c)
        \/ FromUnique(t)

SpecUnique == Init /\ [][NextUnique]_vars

\* ------------------------------------------------------------------ claims

\* a thread is in the zero-count tail of c and has not yet run T's destructor
TailBeforeDestructor(c) ==
    \E t \in Threads : cur[t] = c /\ pc[t] \in {"acquire", "drop_in_place", "forget", "drop_inner"}

NoHandles(c) == Owners(c) = {} /\ UniqueOwners(c) = {}

\* C1: under every interleaving of clone and drop on the handles of a cell made
\* by Arc::new, the payload's destructor runs at most once, never while a handle
\* to the cell is still owned, and it has run once every handle is dropped and
\* the last drop has passed its drop_in_place.
DestructorOnceAfterLastDrop ==
    \A c \in Cells :
        /\ dtorRuns[c] <= 1
        /\ deallocs[c] <= dtorRuns[c]
        /\ dtorRuns[c] >= 1 => NoHandles(c)
        /\ (mem[c] # "unalloc" /\ NoHandles(c) /\ ~TailBeforeDestructor(c))
               => dtorRuns[c] = 1

\* C1 witness: a cell was destroyed and freed exactly once while the other
\* cell is still shared by both threads
DestructorRanOnce ==
    \E c, d \in Cells :
        /\ dtorRuns[c] = 1 /\ deallocs[c] = 1 /\ mem[c] = "freed"
        /\ Owners(d) = Threads /\ count[d] = 2

\* the step just taken is the return of UniqueArc::try_from on thread ev'.t
TryFromReturns == ev'.op \in {"try_from_ok", "try_from_err"}

\* C9: UniqueArc::try_from(Arc) returns Ok iff the count of the cell is 1 when it
\* is loaded; on Ok the unique handle is the same cell, whose count is still 1,
\* and no destructor or dealloc ran in the conversion.
TryFromOkIffCountOne ==
    [][TryFromReturns =>
          LET t == ev'.t
              c == ev'.c
          IN /\ (ev'.op = "try_from_ok") <=> (count[c] = 1)
             /\ ev'.op = "try_from_ok" =>
                   /\ unique'[t] = c
                   /\ shared'[t][c] = shared[t][c] - 1
                   /\ count'[c] = 1
                   /\ mem'[c] = "alloc"
                   /\ dtorRuns' = dtorRuns /\ deallocs' = deallocs
                   /\ dtorRuns[c] = 0]_vars

\* C9 witness: a try_from has just returned Ok: the caller's UniqueArc is the
\* cell, intact, with count 1 and no Arc left on it
TryFromSucceeded ==
    /\ ev.op = "try_from_ok"
    /\ unique[ev.t] = ev.c /\ count[ev.c] = 1 /\ Owners(ev.c) = {}
    /\ mem[ev.c] = "alloc" /\ dtorRuns[ev.c] = 0

\* C10: when try_from fails it returns the handle it was given and changes
\* nothing: no count, payload, cell or handle differs after the call, and the
\* caller still owns the handle, which is one unit of a count that is not 1.
TryFromErrChangesNothing ==
    [][ev'.op = "try_from_err" =>
          /\ UNCHANGED <<mem, count, value, kind, dtorRuns, deallocs, shared, unique,
                         pc, cur>>
          /\ shared'[ev'.t][ev'.c] >= 1
          /\ count'[ev'.c] # 1
          /\ mem'[ev'.c] = "alloc"]_vars

\* C10 witness: a try_from has just failed on a cell with two handles, and the
\* caller still holds its handle
TryFromFailed ==
    /\ ev.op = "try_from_err"
    /\ count[ev.c] = 2 /\ shared[ev.t][ev.c] >= 1 /\ unique[ev.t] = 0

\* the payload of c is there to be read: allocated and not destroyed
PayloadIntact(c) == mem[c] = "alloc" /\ dtorRuns[c] = 0

\* C2: any two DedupArc handles owned by any threads whose payloads are
\* dedup_eq are handles to the same cell.
DedupEqImpliesSameCell ==
    \A a, b \in Cells :
        (/\ Owners(a) # {} /\ Owners(b) # {}
         /\ PayloadIntact(a) /\ PayloadIntact(b)
         /\ dedup_eq(value[a], value[b])) => a = b

\* a drop has decremented the count of c to zero and forget has not yet taken
\* the entry of c out of the table
DyingBeforeForget(c) ==
    \E t \in Threads : cur[t] = c /\ pc[t] \in {"acquire", "drop_in_place", "forget"}

\* the step just taken returned a handle cloned from the table entry ev'.c
ClonedFromTable == ev'.op \in {"fr_hit", "fr_occupied"}

\* C3: between the decrement of an entry's count to zero and the removal of the
\* entry by forget, no find_or_remember clones a handle from that entry: no
\* find_or_remember increments a count from 0.
NoCloneFromDyingEntry ==
    [][ClonedFromTable => count[ev'.c] >= 1 /\ ~DyingBeforeForget(ev'.c)]_vars

\* C4: no handle a thread owns refers to a cell whose count is 0 or that was
\* deallocated, and no cell is deallocated twice.
NoHandleToDeadCell ==
    \A c \in Cells :
        /\ ~NoHandles(c) => mem[c] = "alloc" /\ count[c] >= 1
        /\ deallocs[c] <= 1

\* C5 as claimed: after every step each pointer in the table points to a cell
\* with count >= 1, and a step that changes the table changes no count.
TableEntriesCounted ==
    [][/\ \A b \in table' : mem'[b.ptr] = "alloc" /\ count'[b.ptr] >= 1
       /\ table' # table => count' = count]_vars

\* C5 as amended: after every step each pointer in the table points to an
\* allocated cell whose count is >= 1 or whose count a drop has decremented to 0
\* without forget having removed the entry yet; a step that changes the table
\* changes no count.
TableEntriesCountedOrDying ==
    [][/\ \A b \in table' :
            /\ mem'[b.ptr] = "alloc"
            /\ count'[b.ptr] >= 1 \/ DyingBeforeForget(b.ptr)'
       /\ table' # table => count' = count]_vars

\* C5 witness: the entry of a cell whose last handle is being dropped is still
\* in the table, with count 0, and forget has not run
DyingEntryStillInTable ==
    \E b \in table : count[b.ptr] = 0 /\ DyingBeforeForget(b.ptr)

\* the number of DedupArc handles on c owned by all threads
RECURSIVE HandlesOn(_, _)
HandlesOn(c, T) == IF T = {} THEN 0
                   ELSE LET t == CHOOSE x \in T : TRUE
                        IN shared[t][c] + HandlesOn(c, T \ {t})

\* C6: a drop of a DedupArc starts the destruction of the cell (forget, then the
\* destructor) iff no other DedupArc on the cell is owned at that drop; while a
\* DedupArc on a cell is owned, the cell, its payload and its entry are there.
DropDestroysIffLast ==
    [][/\ \A t \in Threads, c \in Cells :
            shared'[t][c] = shared[t][c] - 1 =>
                ((pc'[t] = "acquire") <=> (HandlesOn(c, Threads) = 1))
       /\ \A c \in Cells :
            Owners(c)' # {} => PayloadIntact(c)' /\ c \in TablePtrs']_vars

\* the step just taken is a return of find_or_remember on thread t
FrReturns(t) == pc[t] \in {"fr_read", "fr_write"} /\ pc'[t] = "idle"

\* the table holds an entry dedup_eq to the payload of u
HoldsEqual(u) == \E b \in table : dedup_eq(value[u], value[b.ptr])

\* C7: find_or_remember(unique) returns in one of two ways. If the table holds
\* an entry dedup_eq to the unique's payload: a handle to that entry's cell, whose
\* count went up by exactly 1, with the unique handed back untouched and the
\* table unchanged. Otherwise: a handle to the unique's own cell, whose count is
\* still 1, with the table grown by exactly that cell.
FindOrRememberOutcomes ==
    [][\A t \in Threads : FrReturns(t) =>
          LET u == unique[t]
              c == ev'.c
          IN /\ ev'.t = t /\ u # 0
             /\ IF HoldsEqual(u)
                THEN /\ ClonedFromTable
                     /\ c \in TablePtrs /\ c # u /\ dedup_eq(value[u], value[c])
                     /\ count' = [count EXCEPT ![c] = @ + 1]
                     /\ shared' = [shared EXCEPT ![t][c] = @ + 1]
                     /\ table' = table
                     /\ unique' = unique
                     /\ UNCHANGED <<mem, value, kind, dtorRuns, deallocs>>
                     /\ PayloadIntact(u) /\ count[u] = 1
                ELSE /\ ev'.op = "fr_insert"
                     /\ c = u
                     /\ mem'[u] = "alloc" /\ count'[u] = 1 /\ count' = count
                     /\ shared' = [shared EXCEPT ![t][u] = 1]
                     /\ unique'[t] = 0
                     /\ u \notin TablePtrs
                     /\ TablePtrs' = TablePtrs \cup {u}
                     /\ Cardinality(table') = Cardinality(table) + 1]_vars

\* C7 witness: a find_or_remember has just returned a handle to the cell already
\* in the table and handed its unique back
FindOrRememberHit ==
    /\ ev.op = "fr_hit"
    /\ ev.c \in TablePtrs /\ count[ev.c] = 2 /\ shared[ev.t][ev.c] = 1
    /\ unique[ev.t] # 0 /\ unique[ev.t] # ev.c

\* C8: forget always finds the entry of the cell it is called for: abort() in
\* forget is never reached.
ForgetNeverAborts == ev.op # "forget_abort"

\* the step just taken is thread t dropping the UniqueArc it owns
UniqueDropStarts(t) == unique[t] # 0 /\ unique'[t] = 0 /\ pc'[t] = "drop_in_place"

\* C11: the drop of a UniqueArc made by UniqueArc::new runs the payload's
\* destructor exactly once, in that drop, and then deallocates the cell once;
\* neither the drop nor the destructor step changes a count word.
UniqueDropDestroysOnce ==
    [][\A t \in Threads :
          /\ UniqueDropStarts(t) =>
                LET c == unique[t]
                IN /\ count' = count /\ cur'[t] = c
                   /\ mem[c] = "alloc" /\ dtorRuns[c] = 0 /\ deallocs[c] = 0
          /\ (pc[t] = "drop_in_place" /\ pc'[t] = "dealloc") =>
                /\ dtorRuns'[cur[t]] = 1 /\ deallocs[cur[t]] = 0
                /\ count' = count
          /\ (pc[t] = "dealloc" /\ pc'[t] = "idle") =>
                /\ dtorRuns[cur[t]] = 1 /\ deallocs'[cur[t]] = 1
                /\ mem'[cur[t]] = "freed"]_vars

\* C11 witness: a dropped UniqueArc's payload is destroyed and the cell is about
\* to be deallocated with its count word still at the 1 that alloc wrote
UniqueDropRanDestructor ==
    \E t \in Threads :
        /\ pc[t] = "dealloc" /\ cur[t] # 0
        /\ dtorRuns[cur[t]] = 1 /\ deallocs[cur[t]] = 0
        /\ count[cur[t]] = InitialCount /\ NoHandles(cur[t])

\* the ArcOnce is Present: its words are those of a handle
Present == niche \in Cells

\* C12: while an ArcOnce is not taken, at most one set returns None and that set
\* stores its handle; a set that returns Some returns after that and keeps its
\* own argument; get returns Some, of the handle stored by the set that won,
\* exactly when that set has completed, and None (or, in the fat encoding,
\* nothing yet) before.
OnceSetWinsOnce ==
    [][/\ setWins' <= 1
       /\ (setWins' = 1) <=> Present'
       /\ ev'.op = "set_none" =>
             /\ setWins = 0 /\ ~Present
             /\ niche' = ev'.c /\ (fat => meta' = MetaOf(ev'.c))
       /\ ev'.op = "set_some" =>
             /\ setWins = 1 /\ shared' = shared /\ shared[ev'.t][ev'.c] > 0
       /\ ev'.op = "get_some" => setWins = 1 /\ ev'.c = niche
       /\ ev'.op \in {"get_none", "get_spin"} => setWins = 0
       /\ (Present /\ ev'.op \notin {"take_some", "once_drop"}) =>
             niche' = niche /\ meta' = meta]_vars

\* C12 witness: in the fat encoding a get has just returned the handle that the
\* one successful set stored, while the other thread still owns a handle it
\* could not store
OnceGetSeesWinner ==
    /\ ev.op = "get_some" /\ fat /\ setWins = 1
    /\ ev.c = niche /\ meta = MetaOf(niche)
    /\ \E u \in Threads, c \in Cells : c # niche /\ shared[u][c] > 0

SetEvents == {"set_none", "set_some", "set_spin", "set_publishing"}

\* C13: a turn of set on a Present ArcOnce returns Some of the caller's own
\* handle: no count, handle or destructor counter changes and both words of the
\* ArcOnce stay as they were, in the thin and in the fat encoding.
OnceSetOnPresentIsNoOp ==
    [][(Present /\ ev'.op \in SetEvents) =>
          /\ ev'.op = "set_some"
          /\ shared[ev'.t][ev'.c] > 0 /\ pc'[ev'.t] = "idle"
          /\ niche' = niche /\ meta' = meta
          /\ UNCHANGED <<mem, count, value, kind, dtorRuns, deallocs, shared,
                         unique, setWins>>]_vars

\* C13 witness: in the thin encoding a set has just lost against the handle of
\* another cell and its caller still owns the handle it passed
OnceSetLost ==
    /\ ev.op = "set_some" /\ ~fat
    /\ Present /\ niche # ev.c
    /\ shared[ev.t][ev.c] > 0 /\ count[ev.c] >= 1 /\ PayloadIntact(ev.c)

\* C14: the drop of an ArcOnce decrements the count of the cell whose handle it
\* holds by exactly 1 and starts the destruction of that cell iff the count was
\* 1; the drop of an Empty ArcOnce changes no cell; no cell is destroyed or
\* deallocated twice.
OnceDropReleasesOne ==
    [][/\ ev'.op = "once_drop" =>
             IF niche = 0
             THEN UNCHANGED <<mem, count, value, kind, dtorRuns, deallocs, shared,
                             unique, pc, cur>>
             ELSE /\ mem[niche] = "alloc" /\ dtorRuns[niche] = 0
                  /\ count' = [count EXCEPT ![niche] = @ - 1]
                  /\ UNCHANGED <<mem, value, kind, dtorRuns, deallocs, shared, unique>>
                  /\ (count[niche] = 1) <=>
                        (pc'[ev'.t] = "acquire" /\ cur'[ev'.t] = niche)
       /\ \A c \in Cells : dtorRuns'[c] <= 1 /\ deallocs'[c] <= dtorRuns'[c]]_vars

\* C14 witness: the ArcOnce held the only handle of a cell and was dropped; the
\* dropping thread is in the zero-count tail of that cell
OnceDropDestroysCell ==
    /\ ev.op = "once_drop" /\ ev.c # 0 /\ ~slotAlive
    /\ count[ev.c] = 0 /\ NoHandles(ev.c) /\ mem[ev.c] = "alloc"
    /\ pc[ev.t] = "acquire" /\ cur[ev.t] = ev.c

SgEvents == {"sg_step", "sg_return"}

\* C16: every return of singleton_with::<T> is the reference in T's OnceLock,
\* which is the one made by the only constructor that ran for T, so all calls
\* for T return the same reference; a step of a call for T changes nothing that
\* belongs to another type.
SingletonSameReference ==
    [][ev'.op \in SgEvents =>
          LET T == ev'.c
          IN /\ ev'.op = "sg_return" =>
                   /\ sgOnce'[T] # NoRef /\ sgOnce'[T].type = T
                   /\ sgMade'[T] = {sgOnce'[T]}
                   /\ sgReturned'[T] = {sgOnce'[T]}
             /\ \A U \in Types \ {T} :
                   /\ sgOnce'[U] = sgOnce[U] /\ sgInit'[U] = sgInit[U]
                   /\ sgMade'[U] = sgMade[U] /\ sgReturned'[U] = sgReturned[U]
                   /\ (U \in sgTable') <=> (U \in sgTable)
                   /\ \A k \in CacheKeys :
                         sgCache'[k][SlotOf(U)] = sgCache[k][SlotOf(U)]]_vars

\* C16 witness: a call has just returned from the cache, both types have their
\* singleton and the two were made by the constructors of different threads
SingletonReturnedBoth ==
    /\ ev.op = "sg_return" /\ pc[ev.t] = "idle"
    /\ \A T \in Types : sgReturned[T] = {sgOnce[T]} /\ sgOnce[T].type = T
    /\ \E T, U \in Types : sgOnce[T].val # sgOnce[U].val


TcEvents == {"tc_step", "tc_return", "tc_alloc"}

\* C18: the words of a slot are zero at the step that allocates it; no step of
\* type_cache or type_cache_fallback changes a word of a slot already handed
\* out; a user's fetch_add changes no word of any other slot.
SlotZeroThenUsersOnly ==
    [][/\ ev'.op = "tc_alloc" =>
            \A x \in SlotWords(tcId[ev'.t], ev'.c) : heap'[x] = 0
       /\ ev'.op \in TcEvents =>
            \A id \in SlotIds : \A a \in tcReturned[id] :
                \A x \in SlotWords(id, a) : heap'[x] = heap[x]
       /\ ev'.op = "tc_use" =>
            \A id \in SlotIds : \A a \in tcReturned[id] \ {ev'.c} :
                \A x \in SlotWords(id, a) : heap'[x] = heap[x]]_vars

\* the counter of one tag has been used, the counter of the other tag of the
\* same type is still zero
SlotCountersDiffer ==
    /\ ev.op = "tc_use"
    /\ \E a \in tcReturned[<<2, 1>>] : \E b \in tcReturned[<<2, 2>>] :
        heap[a] > 0 /\ heap[b] = 0


\* a step in which the count word of the live cell c went up
Incremented(c) ==
    /\ mem[c] = "alloc" /\ mem'[c] = "alloc"
    /\ count'[c] # count[c] /\ count'[c] # count[c] - 1

\* C19: an increment of a count aborts iff the count before it was MAX_COUNT or
\* more; the aborting increment gives no thread a new handle; an increment adds
\* one and never leaves the count at 0.
IncAbortsAtMax ==
    [][\A c \in Cells : Incremented(c) =>
          /\ aborted' <=> count[c] >= MAX_COUNT
          /\ aborted' => shared' = shared /\ unique' = unique
          /\ count'[c] = count[c] + 1
          /\ count'[c] # 0]_vars

\* a clone of a cell whose count was MAX_COUNT has aborted the process: the
\* count is one above, the handles are the MAX_COUNT there were
CloneAbortedAtMax ==
    /\ aborted
    /\ \E c \in Cells :
        /\ count[c] = MAX_COUNT + 1
        /\ Handles(c) = MAX_COUNT


\* the steps that make, copy or discard an ArcBorrow
BorrowEvents == {"borrow_from", "borrow_copy", "borrow_discard"}

\* C20: a clone_arc that returns adds exactly one to the count of the borrowed
\* cell, which is live, and gives the caller one more Arc on that cell and
\* nothing else; making, copying and discarding an ArcBorrow changes no count,
\* no handle and no cell, and starts no drop.
CloneArcAddsOneBorrowAddsNone ==
    [][/\ ev'.op = "clone_arc" =>
            LET t == ev'.t
                c == ev'.c
            IN /\ borrow[t] = c
               /\ mem[c] = "alloc" /\ dtorRuns[c] = 0
               /\ count' = [count EXCEPT ![c] = @ + 1]
               /\ shared' = [shared EXCEPT ![t][c] = @ + 1]
               /\ UNCHANGED <<mem, value, dtorRuns, deallocs, unique, pc, borrow>>
       /\ ev'.op \in BorrowEvents =>
            UNCHANGED <<mem, count, value, dtorRuns, deallocs, shared, unique, pc, cur>>]_vars

\* a clone_arc has returned through a borrow whose copies two threads hold, and
\* the cell has the handle lent and the handle returned
CloneArcReturned ==
    /\ ev.op = "clone_arc"
    /\ Borrowers(ev.c) = Threads
    /\ count[ev.c] = 2 /\ Handles(ev.c) = 2


\* C21: From<UniqueArc> for Arc turns the caller's UniqueArc into one Arc on
\* the same cell, whose count is 1 before and after, and touches no count, cell,
\* destructor or drop; with every Arc coming from a conversion, a destructor
\* runs on a cell once at most, in the zero-count tail of Arc::drop with no
\* handle left, dealloc follows it once, and both have run when no handle is
\* left and no drop is in progress.
FromUniqueSharesAsIs ==
    [][/\ ev'.op = "from_unique" =>
            LET t == ev'.t
                c == ev'.c
            IN /\ unique[t] = c /\ unique'[t] = 0
               /\ shared' = [shared EXCEPT ![t][c] = @ + 1]
               /\ count[c] = 1
               /\ UNCHANGED <<count, mem, value, dtorRuns, deallocs, pc, cur>>
       /\ \A c \in Cells :
            /\ dtorRuns'[c] # dtorRuns[c] =>
                  /\ dtorRuns[c] = 0 /\ dtorRuns'[c] = 1
                  /\ count[c] = 0 /\ NoHandles(c)
                  /\ \E t \in Threads : cur[t] = c /\ pc[t] = "drop_in_place"
            /\ deallocs'[c] # deallocs[c] =>
                  deallocs[c] = 0 /\ deallocs'[c] = 1 /\ dtorRuns[c] = 1
            /\ (mem'[c] # "unalloc" /\ Owners(c)' = {} /\ UniqueOwners(c)' = {}
                    /\ \A t \in Threads : pc'[t] = "idle")
                  => dtorRuns'[c] = 1 /\ deallocs'[c] = 1]_vars

\* a UniqueArc has just become the only Arc of its cell, count 1, after
\* another converted cell was destroyed and freed once
FromUniqueConverted ==
    /\ ev.op = "from_unique"
    /\ count[ev.c] = 1 /\ Handles(ev.c) = 1 /\ unique[ev.t] = 0
    /\ \E c \in Cells : dtorRuns[c] = 1 /\ deallocs[c] = 1 /\ mem[c] = "freed"


\* no two entries of the table have dedup_eq payloads
NoEqualEntries(T) ==
    \A a \in T : \A b \in T : dedup_eq(value[a.ptr], value[b.ptr]) => a = b

\* the step just taken is the hit of the write-locked re-probe of thread t on
\* the cell c, which hands the unique back
ReprobeHit(t, c) ==
    /\ ev'.op = "fr_occupied" /\ ev'.t = t /\ ev'.c = c
    /\ count' = [count EXCEPT ![c] = @ + 1]
    /\ shared' = [shared EXCEPT ![t][c] = @ + 1]
    /\ unique' = unique /\ table' = table

UniqueExcludesShared ==
    \A c \in Cells :
        UniqueOwners(c) # {} =>
            /\ Cardinality(UniqueOwners(c)) = 1
            /\ count[c] = 1
            /\ Owners(c) = {}


\* no thread is inside a clone, a drop, a set or a find_or_remember, and no
\* inc_count has aborted
Quiescent == ~aborted /\ \A t \in Threads : pc[t] = "idle"

\* the Arc the ArcOnce holds on the cell c, if it holds one
HeldInOnce(c) == IF slotAlive /\ niche = c THEN 1 ELSE 0

\* C24: in a quiescent state the count of every allocated cell is 1 if a
\* UniqueArc owns it and otherwise the number of Arc and DedupArc handles on
\* it, the one inside an ArcOnce included; ArcBorrows and the pointers of the
\* table are not counted.
CountIsOwners ==
    Quiescent =>
        \A c \in Cells : mem[c] = "alloc" =>
            count[c] = IF UniqueOwners(c) # {} THEN 1
                       ELSE Handles(c) + HeldInOnce(c)


\* the thread t is in the zero-count tail of the interned cell c at the
\* position p
InTail(t, c, p) == cur[t] = c /\ kind[c] = "entry" /\ pc[t] = p

\* C25: in the drop of a DedupArc that takes the count to 0 the dropping thread
\* goes from the decrement to the acquire load, from there to forget, which
\* removes the entry under the write lock, then to the destructor of the
\* payload, then to dealloc: the entry is removed only by a thread that is past
\* its acquire and holds the write lock, while the payload is intact; the
\* payload is destroyed only after the entry is out of the table and before the
\* cell is freed; the cell is freed only after the payload was destroyed.
DedupDropInOrder ==
    [][/\ \A t \in Threads : \A c \in Cells :
            /\ (InTail(t, c, "acquire")' /\ pc[t] # "acquire") =>
                  /\ pc[t] = "idle" /\ shared'[t][c] = shared[t][c] - 1
                  /\ mem[c] = "alloc" => count[c] = 1 /\ count'[c] = 0
            /\ (InTail(t, c, "drop_in_place")' /\ pc[t] # "drop_in_place") =>
                  InTail(t, c, "acquire")
            /\ (InTail(t, c, "forget")' /\ pc[t] # "forget") =>
                  InTail(t, c, "drop_in_place") /\ writer' = t
            /\ (InTail(t, c, "drop_inner")' /\ pc[t] # "drop_inner") =>
                  InTail(t, c, "forget") /\ c \in TablePtrs /\ c \notin TablePtrs'
            /\ (InTail(t, c, "dealloc")' /\ pc[t] # "dealloc") =>
                  InTail(t, c, "drop_inner") /\ dtorRuns'[c] = dtorRuns[c] + 1
       /\ \A c \in Cells : kind[c] = "entry" =>
            /\ (c \in TablePtrs /\ c \notin TablePtrs') =>
                  /\ \E t \in Threads : InTail(t, c, "forget") /\ writer = t
                  /\ PayloadIntact(c)
            /\ dtorRuns'[c] # dtorRuns[c] =>
                  /\ \E t \in Threads : InTail(t, c, "drop_inner")
                  /\ c \notin TablePtrs /\ mem[c] = "alloc"
            /\ deallocs'[c] # deallocs[c] =>
                  /\ \E t \in Threads : InTail(t, c, "dealloc")
                  /\ dtorRuns[c] >= 1 /\ c \notin TablePtrs]_vars

\* the last DedupArc of an interned cell was dropped and the drop ran to its
\* end: the entry is out of the table, the payload destroyed once, the cell
\* freed once, while the other interned cell is still in the table
DedupDropCompleted ==
    \E c \in Cells :
        /\ kind[c] = "entry" /\ mem[c] = "freed"
        /\ dtorRuns[c] = 1 /\ deallocs[c] = 1
        /\ c \notin TablePtrs /\ TablePtrs # {}


\* C26: every pointer in the table is to a cell that is allocated and whose
\* inner payload no thread has destroyed or is about to destroy, so a probe of
\* the table, which reads the payload of every entry it compares, reads
\* payloads that are there.
TableEntriesIntact ==
    \A b \in table :
        /\ PayloadIntact(b.ptr)
        /\ \A t \in Threads : cur[t] = b.ptr => pc[t] \notin {"drop_inner", "dealloc"}

\* a probe under the read lock has compared its unique with the entry of
\* another cell and found them dedup_eq, while the last handle of that cell is
\* being dropped
ProbeReadsEntry ==
    \E t \in Threads :
        /\ pc[t] = "fr_read" /\ t \in readers
        /\ found[t] \in TablePtrs /\ found[t] # unique[t]
        /\ dedup_eq(value[unique[t]], value[found[t]])
        /\ DyingBeforeForget(found[t])


\* the step just taken is forget's find_entry and what follows it
ForgetActs == ev'.op \in {"forget", "forget_abort"}

\* C27: forget removes exactly one entry of the table, the one whose pointer
\* is the address of the dying entry, whatever the payloads and hashes of the
\* other entries, and changes no other entry, no count and no cell.
ForgetRemovesOwnEntry ==
    [][ForgetActs =>
          LET c == ev'.c
          IN /\ cur[ev'.t] = c
             /\ table' = {b \in table : b.ptr # c}
             /\ Cardinality(table') = Cardinality(table) - 1
             /\ UNCHANGED <<count, mem, value, kind, dtorRuns, deallocs, shared, unique>>]_vars


GetEvents == {"get_none", "get_spin", "get_some"}

\* the ArcOnce is Publishing: a set has put the sentinel in the niche word and
\* has not yet stored the niche of its handle
Publishing == fat /\ niche = SENTINEL

\* C28: in the fat encoding a get that returns Some returns the two words of
\* one handle, the one the winning set passed: the winning set leaves the niche
\* and the metadata of its handle in the ArcOnce, they stay until a take or the
\* drop, and a get returns Some only of them; a get that finds the ArcOnce
\* Publishing returns nothing and goes round its loop.
GetNeverTorn ==
    [][fat =>
          /\ ev'.op = "set_none" =>
                Publishing /\ niche' = ev'.c /\ meta' = MetaOf(ev'.c)
          /\ (Present /\ ev'.op \notin {"take_some", "once_drop"}) =>
                niche' = niche /\ meta' = meta
          /\ ev'.op \in GetEvents =>
                /\ UNCHANGED <<niche, meta, count, shared>>
                /\ ev'.op = "get_some" <=> Present
                /\ ev'.op = "get_some" => ev'.c = niche /\ meta = MetaOf(niche)
                /\ ev'.op = "get_spin" <=> Publishing
                /\ Publishing => pc'[ev'.t] = "get_spin"]_vars

\* a get has found the ArcOnce Publishing, the metadata word written and the
\* niche word still the sentinel, and waits
GetSawPublishing ==
    /\ ev.op = "get_spin" /\ pc[ev.t] = "get_spin"
    /\ Publishing
    /\ \E u \in Threads : pc[u] = "set_store" /\ meta = MetaOf(arg[u])


\* C29: a set returns, with None or with Some, only into a Present ArcOnce; a
\* turn of set that leaves the ArcOnce Empty or Publishing leaves its thread
\* inside set; a Present ArcOnce stays Present until a take or the drop, and
\* every get on it returns Some.
SetReturnsOnPresent ==
    [][/\ ev'.op \in {"set_none", "set_some"} =>
            Present' /\ pc'[ev'.t] = "idle"
       /\ (ev'.op \in SetEvents /\ ~Present') =>
            pc'[ev'.t] \in {"set_cas", "set_meta"} /\ arg'[ev'.t] = ev'.c
       /\ (Present /\ ev'.op \in GetEvents) =>
            ev'.op = "get_some" /\ pc'[ev'.t] = "idle"
       /\ (Present /\ ~Present') => ev'.op \in {"take_some", "once_drop"}]_vars

\* in the fat encoding a set has just returned Some: the ArcOnce holds both
\* words of the other handle, the caller has its own handle back
FatSetLost ==
    /\ ev.op = "set_some" /\ fat
    /\ Present /\ niche # ev.c /\ meta = MetaOf(niche)
    /\ shared[ev.t][ev.c] > 0 /\ pc[ev.t] = "idle"


\* C30: a Publishing ArcOnce becomes Present, and a thread that is in the loop
\* of get or of set leaves it, unless the process aborts.
PublishingEnds ==
    /\ Publishing ~> (Present \/ aborted)
    /\ \A t \in Threads :
        (pc[t] \in {"get_spin", "set_cas"}) ~> (pc[t] = "idle" \/ aborted)

\* a set has found the ArcOnce Publishing and goes round its loop while the
\* publisher has not yet written the metadata word
SetSawPublishing ==
    /\ ev.op = "set_spin" /\ pc[ev.t] = "set_cas"
    /\ Publishing
    /\ \E u \in Threads : pc[u] = "set_meta" /\ arg[u] # arg[ev.t]


\* C31: take on a Present ArcOnce returns the handle stored in it: the caller
\* owns one handle more on that cell, no count changes, and both words of the
\* ArcOnce are zero; take on an Empty ArcOnce returns None and changes nothing;
\* on an Empty ArcOnce, as a take leaves it, a get returns None and no set
\* returns Some.
TakeEmptiesOnce ==
    [][/\ ev'.op = "take_some" =>
            /\ Present /\ ev'.c = niche
            /\ fat => meta = MetaOf(niche)
            /\ shared' = [shared EXCEPT ![ev'.t][niche] = @ + 1]
            /\ niche' = 0 /\ meta' = 0
            /\ UNCHANGED <<mem, count, value, kind, dtorRuns, deallocs, unique, pc>>
       /\ ev'.op = "take_none" =>
            /\ niche = 0 /\ meta = 0
            /\ UNCHANGED <<mem, count, value, kind, dtorRuns, deallocs, shared,
                           unique, pc, niche, meta, slotAlive, fat>>
       /\ (niche = 0 /\ ev'.op \in GetEvents) =>
            ev'.op = "get_none" /\ pc'[ev'.t] = "idle"
       /\ (niche = 0 /\ ev'.op \in SetEvents) =>
            /\ ev'.op # "set_some"
            /\ ~fat => ev'.op = "set_none" /\ niche' = ev'.c]_vars

\* a take has just returned the handle of a fat ArcOnce: the ArcOnce is Empty
\* with both words zero, and the taker holds the only handle of the cell, whose
\* count is still 1
TakeReturnedHandle ==
    /\ ev.op = "take_some" /\ fat /\ slotAlive
    /\ niche = 0 /\ meta = 0
    /\ shared[ev.t][ev.c] = 1 /\ count[ev.c] = 1 /\ HandlesOn(ev.c, Threads) = 1
    /\ PayloadIntact(ev.c)


\* C32: a thread that is in get_or_init, in the constructor or past it holds
\* GLOBAL_SINGLETON_TABLE neither for reading nor for writing; a thread holds
\* the read lock only between read() and the end of the block that looks the
\* type up, and the write lock only for the step that inserts the type's empty
\* OnceLock, which sets no OnceLock and runs no constructor.
CtorOutsideLock ==
    /\ [](\A t \in Threads :
            /\ pc[t] \in {"sg_once", "sg_ctor", "sg_store"} =>
                  t \notin sgReaders /\ sgWriter # t
            /\ (t \in sgReaders) <=> (pc[t] = "sg_found")
            /\ (sgWriter = t) <=> (pc[t] = "sg_insert"))
    /\ [][/\ (sgWriter # 0 /\ sgWriter' # sgWriter) =>
               /\ sgWriter' = 0 /\ ev'.t = sgWriter
               /\ sgTable' = sgTable \cup {ev'.c}
               /\ UNCHANGED <<sgOnce, sgInit, sgMade, sgCache, sgReturned>>
          /\ sgMade' # sgMade =>
               /\ pc[ev'.t] = "sg_ctor"
               /\ ev'.t \notin sgReaders /\ sgWriter # ev'.t
               /\ UNCHANGED <<sgTable, sgLockVars>>]_vars

\* the constructor of one thread is about to run while the other thread holds
\* the write lock to insert the OnceLock of another type
CtorBesideWriter ==
    \E t \in Threads, u \in Threads :
        /\ pc[t] = "sg_ctor" /\ sgInit[sgT[t]] = t
        /\ pc[u] = "sg_insert" /\ sgWriter = u /\ sgT[u] # sgT[t]
        /\ sgT[u] \notin sgTable


\* C33: in every reachable state the cache slot of a type, CacheSlot::<T> in the
\* static_cache build and the entry for T of every thread's
\* LOCAL_SINGLETON_TABLE in the thread_local build, is empty or holds the
\* reference that T's OnceLock in the global table holds; a call that returns
\* from the cache and a call that returns from singleton_global return that
\* reference.
CacheHoldsRegistryPointer ==
    /\ [](\A k \in CacheKeys : \A T \in Types :
            sgCache[k][SlotOf(T)] # NoRef =>
                /\ T \in sgTable
                /\ sgCache[k][SlotOf(T)] = sgOnce[T])
    /\ [][ev'.op = "sg_return" =>
            LET T == ev'.c
                t == ev'.t
            IN /\ sgOnce[T] # NoRef /\ sgOnce'[T] = sgOnce[T]
               /\ sgReturned'[T] = sgReturned[T] \cup {sgOnce[T]}
               /\ pc[t] = "idle" => sgCache[CacheKey(t)][SlotOf(T)] = sgOnce[T]
               /\ pc[t] = "sg_store" => sgGot[t] = sgOnce[T]
               /\ sgCache'[CacheKey(t)][SlotOf(T)] = sgOnce[T]]_vars

\* in the thread_local build one thread has the reference of a type in its
\* table, made by its own constructor, and the other thread, whose table has no
\* entry for the type, comes out of singleton_global with the same reference
SlowPathMeetsCache ==
    \E t \in Threads, u \in Threads, T \in Types :
        /\ ~sgStatic /\ t # u
        /\ sgCache[t][SlotOf(T)] = sgOnce[T] /\ sgOnce[T].val = t
        /\ sgCache[u][SlotOf(T)] = NoRef
        /\ pc[u] = "sg_store" /\ sgT[u] = T /\ sgGot[u] = sgOnce[T]


\* C34: no entry of GLOBAL_SINGLETON_TABLE is ever removed, so a call of
\* singleton_global takes the write lock at most once, the read that follows
\* finds the type's OnceLock and the call goes on to get_or_init; and every
\* call that is inside singleton_global returns.
SingletonGlobalTerminates ==
    /\ [](\A t \in Threads :
            /\ sgInserts[t] <= 1
            /\ pc[t] \in {"sg_wlock", "sg_insert"} => sgInserts[t] = 0
            /\ (pc[t] \in {"sg_read", "sg_found"} /\ sgInserts[t] = 1) =>
                  sgT[t] \in sgTable
            /\ (pc[t] = "sg_found" /\ sgInserts[t] = 1) => sgFound[t])
    /\ [][sgTable \subseteq sgTable']_vars
    /\ \A t \in Threads : (pc[t] \in SgPcs) ~> (pc[t] = "idle")

\* both threads missed the same type under the read lock and both have been
\* through the write lock since; each is about to read the table again
BothInsertedOnce ==
    /\ \A t \in Threads : pc[t] = "sg_read" /\ sgInserts[t] = 1
    /\ \E T \in Types : T \in sgTable /\ \A t \in Threads : sgT[t] = T


\* C35: on the rwlock path an entry of CACHE, once inserted, is never replaced
\* or removed; an allocation happens only under the write lock, for a key that
\* has no entry, and its zeroed storage becomes the key's entry; every call
\* returns the address in the entry of its key, so there is one allocation per
\* key and all callers of a key get the same address.
FallbackAllocatesOnce ==
    [][/\ \A k \in TypeIds : tcMap[k] # 0 => tcMap'[k] = tcMap[k]
       /\ ev'.op = "tc_alloc" =>
            LET id == tcId[ev'.t]
            IN /\ tcWriter = ev'.t /\ tcReaders = {}
               /\ tcMap[TypeIdOf(id)] = 0 /\ tcReturned[id] = {}
               /\ tcMap'[TypeIdOf(id)] = ev'.c
               /\ \A k \in TypeIds \ {TypeIdOf(id)} : tcMap[k] # ev'.c
               /\ \A x \in SlotWords(id, ev'.c) : heap'[x] = 0
               /\ tcReturned'[id] = {ev'.c}
       /\ ev'.op = "tc_return" =>
            LET id == tcId[ev'.t]
            IN /\ ev'.c # 0 /\ ev'.c = tcMap[TypeIdOf(id)]
               /\ tcReturned'[id] = {ev'.c}
               /\ UNCHANGED <<tcMap, heap, heapTop>>]_vars

\* a call that missed under the read lock holds the write lock and finds the
\* entry another call has inserted and returned since
FallbackFindsOccupied ==
    \E t \in Threads :
        /\ pc[t] = "tc_entry" /\ tcWriter = t
        /\ tcMap[TypeIdOf(tcId[t])] # 0
        /\ tcReturned[tcId[t]] = {tcMap[TypeIdOf(tcId[t])]}


\* the slot of buffer n at the index last
LastSlot(n) == wbBufs[n].data[wbBufs[n].last]

\* C36: in the WASM build the slot at index last of the buffer in use, and of
\* every buffer a thread has loaded, is null in every reachable state; a lookup
\* whose index is last or more reads that slot, misses and goes to the
\* fallback.
LastSlotNull ==
    /\ [](/\ LastSlot(wbPtr) = 0
          /\ \A n \in 1..wbPtr : LastSlot(n) = 0
          /\ \A t \in Threads : wbSeen[t] # 0 => LastSlot(wbSeen[t]) = 0)
    /\ [][\A t \in Threads :
            (/\ pc[t] = "wc_load" /\ ev'.t = t
             /\ FnIndex(tcId[t]) >= wbBufs[wbSeen[t]].last) =>
                /\ ev'.op = "wc_step" /\ pc'[t] = "wc_lock"
                /\ tcReturned' = tcReturned]_vars

\* a lookup with an index beyond last has just missed in a buffer that holds
\* the pointer of another key
ClampedLookupMissed ==
    /\ ev.op = "wc_step" /\ pc[ev.t] = "wc_lock"
    /\ FnIndex(tcId[ev.t]) > wbBufs[wbPtr].last
    /\ wbBufs[wbPtr].last >= 2
    /\ \E i \in 0..wbBufs[wbPtr].last : wbBufs[wbPtr].data[i] \in Addrs
    /\ \A t \in Threads : pc[t] \notin {"wc_ginit", "wc_galloc"}

\* the keys whose function has the index i
KeysAt(i) == {id \in SlotIds : FnIndex(id) = i}

\* C37: in the WASM build every non-null slot i of the buffer in use and of the
\* older buffers is the address CACHE holds for the key with index i; the
\* buffer a grow publishes has every non-null slot of the buffer it replaces;
\* every call, from a buffer or from the fallback, returns the address CACHE
\* holds for its key, which never changes.
SlotsAgreeWithMap ==
    /\ [](/\ \A n \in 1..wbPtr : \A i \in 0..wbBufs[n].last :
                wbBufs[n].data[i] # 0 =>
                    \E id \in KeysAt(i) : wbBufs[n].data[i] = tcMap[TypeIdOf(id)]
          /\ \A id \in SlotIds : Cardinality(tcReturned[id]) <= 1)
    /\ [][/\ wbPtr' # wbPtr =>
               /\ wbBufs'[wbPtr'].last > wbBufs[wbPtr].last
               /\ \A i \in 0..wbBufs[wbPtr].last :
                     wbBufs[wbPtr].data[i] # 0 =>
                         wbBufs'[wbPtr'].data[i] = wbBufs[wbPtr].data[i]
          /\ \A k \in TypeIds : tcMap[k] # 0 => tcMap'[k] = tcMap[k]
          /\ ev'.op \in {"wc_hit", "wc_return"} =>
               /\ ev'.c # 0 /\ ev'.c = tcMap[TypeIdOf(tcId[ev'.t])]
               /\ tcReturned'[tcId[ev'.t]] = {ev'.c}]_vars

\* a grow has just published its buffer, the third at least, with the pointers
\* of two keys in it, while the other thread is about to read the slot of one
\* of them in the buffer that was replaced
GrowKeptSlots ==
    /\ ev.op = "wc_return" /\ wbPtr >= 3 /\ wbPtr = Len(wbBufs)
    /\ Cardinality({i \in 0..wbBufs[wbPtr].last : wbBufs[wbPtr].data[i] # 0}) >= 2
    /\ \E u \in Threads :
          /\ pc[u] = "wc_load" /\ wbSeen[u] = wbPtr - 1
          /\ FnIndex(tcId[u]) < wbBufs[wbSeen[u]].last
          /\ wbBufs[wbSeen[u]].data[FnIndex(tcId[u])] # 0


\* the thread holds the table's lock, for reading or for writing
HoldsTable(t) == t \in readers \/ writer = t

\* C38: a thread holds the table's read lock only between read() and the end of
\* the read-locked probe, and the write lock only inside the write-locked part
\* of find_or_remember and inside forget; a thread that is about to call
\* write(), in find_or_remember or in forget, and a thread that is in a zero
\* count tail outside forget (the payload's destructor, the deallocation) does
\* not hold the lock; so the destructor of a payload that holds a DedupArc of
\* the same table runs the forget of the nested entry with the lock released,
\* after its own entry was removed (as long as the process has not aborted).
NoReentrantLock ==
    /\ [](~aborted => \A t \in Threads :
            /\ (t \in readers) <=> (pc[t] = "fr_read")
            /\ (writer = t) <=> (pc[t] \in {"fr_write", "forget"})
            /\ pc[t] \in {"idle", "fr_wait", "acquire", "drop_in_place", "drop_inner",
                          "dealloc"} => ~HoldsTable(t)
            /\ \A i \in 1..Len(stack[t]) :
                  /\ ~HoldsTable(t) \/ pc[t] = "forget"
                  /\ stack[t][i] \notin {b.ptr : b \in table}
                  /\ dtorRuns[stack[t][i]] = 1 /\ deallocs[stack[t][i]] = 0)
    /\ [][\A t \in Threads :
            /\ (t \in readers' /\ t \notin readers) => ~HoldsTable(t)
            /\ (writer' = t /\ writer # t) => ~HoldsTable(t)
            /\ dtorRuns' # dtorRuns /\ ev'.op = "none" /\ pc'[t] # pc[t] => ~HoldsTable(t)]_vars

\* a thread is inside the destructor of a payload whose entry it has removed,
\* and inside that destructor it holds the write lock in the forget of the
\* entry the payload had a handle to
NestedForget ==
    \E t \in Threads :
        /\ pc[t] = "forget" /\ writer = t
        /\ stack[t] # <<>>
        /\ ChildOf(Head(stack[t])) = cur[t]
        /\ cur[t] \in {b.ptr : b \in table}
        /\ Head(stack[t]) \notin {b.ptr : b \in table}


\* C39 (as stated): in every reachable state, an allocated cell whose count is
\* greater than 0 has an initialized payload: its destructor has not started.
\* UniqueArc::drop runs drop_in_place and then dealloc without touching the
\* count word, which therefore still reads 1 while and after the destructor
\* runs.
CountPositiveMeansInitialized ==
    \A c \in Cells : (mem[c] = "alloc" /\ count[c] > 0) => dtorRuns[c] = 0

\* C39: in every reachable state, a cell made by Arc::new or UniqueArc::new
\* that some Arc or UniqueArc handle refers to has a count greater than 0 and
\* an initialized payload (allocated, destructor not started); a cell whose
\* destructor has started while its count is greater than 0 is the cell of a
\* UniqueArc being dropped, with count 1 and no handle left.
HandleMeansInitialized ==
    /\ \A c \in Cells : ~NoHandles(c) => (count[c] > 0 /\ PayloadIntact(c))
    /\ \A c \in Cells :
          (mem[c] = "alloc" /\ count[c] > 0 /\ dtorRuns[c] > 0) =>
              /\ count[c] = InitialCount /\ NoHandles(c)
              /\ \E t \in Threads : cur[t] = c /\ pc[t] = "dealloc"

\* a UniqueArc is between drop_in_place and dealloc, its count word still 1,
\* while the other thread owns an Arc to a live cell
UniqueDropLeavesCountOne ==
    \E t \in Threads, u \in Threads, c \in Cells :
        /\ t # u /\ pc[t] = "dealloc" /\ cur[t] # 0 /\ cur[t] # c
        /\ count[cur[t]] = InitialCount /\ dtorRuns[cur[t]] = 1
        /\ mem[cur[t]] = "alloc" /\ NoHandles(cur[t])
        /\ shared[u][c] > 0 /\ count[c] > 0 /\ PayloadIntact(c)


\* C40: for every payload layout that ArcLayout::from_data_layout accepts,
\* header_size is at least size_of(usize) and a multiple of the payload's
\* alignment, and the full size is a multiple of the larger of the two
\* alignments and at least header_size plus the payload's size; the payload
\* of an allocated cell sits header_size bytes into the allocation, so the
\* count word at (payload address - size_of(usize)) lies inside the
\* allocation, ends where the payload starts or before, and the payload ends
\* inside the allocation; dealloc gets the address of the allocation back.
LayoutPlacesCountBeforePayload ==
    /\ lyPc \in {"layout", "alloc", "freed"} =>
          /\ lyArc.ok
          /\ lyArc.header_size >= USIZE_BYTES
          /\ lyArc.header_size % lyData.align = 0
          /\ lyArc.align = Larger(USIZE_BYTES, lyData.align)
          /\ lyArc.size % lyArc.align = 0
          /\ lyArc.size >= lyArc.header_size + lyData.size
          /\ data_layout(lyArc).size >= lyData.size
    /\ lyPc \in {"alloc", "freed"} =>
          /\ lyBase > 0 /\ lyBase % lyArc.align = 0
          /\ lyPtr = lyBase + lyArc.header_size
          /\ lyPtr % lyData.align = 0
          /\ lyCount = lyPtr - USIZE_BYTES
          /\ lyCount % USIZE_BYTES = 0
          /\ lyBase <= lyCount
          /\ lyCount + USIZE_BYTES <= lyPtr
          /\ lyPtr + lyData.size <= lyBase + lyArc.size
    /\ lyPc = "freed" => lyFreed = lyBase

\* a cell whose payload is aligned more strictly than the count and whose size
\* is no multiple of its alignment was allocated and freed: the header and the
\* end of the allocation are padded
PaddedCellFreed ==
    /\ lyPc = "freed"
    /\ lyData.align > USIZE_BYTES /\ lyData.size % lyData.align # 0
    /\ lyArc.header_size = lyData.align
    /\ lyArc.size > lyArc.header_size + lyData.size
    /\ lyCount > lyBase /\ lyFreed = lyBase

====
